---- MODULE Spec2Model ----
(***************************************************************************)
(* Model of Python_Files/hydrolibs/random_forest_regressor.py of HydroSAR: *)
(* the raster scan and table assembly of create_dataframe, the two         *)
(* train/test partitioners, rf_regressor's runs on one output directory,   *)
(* the per-year prediction raster and the loop over prediction years; and  *)
(* of Python_Files/hydrolibs/vectorops.py: its parallel fan-outs and the   *)
(* id settings and join of add_attribute_well_reg.                         *)
(*                                                                         *)
(* Text (paths, variable names, column names) is a sequence of one-letter  *)
(* strings, so that rfind and slicing are computed as the code computes    *)
(* them.  A table cell is a record [t, v]: t = "num" (a number), "str" (a  *)
(* label), "nan" (numpy NaN) or "none" (a null label).                     *)
(***************************************************************************)
EXTENDS Integers, Sequences, FiniteSets, TLC

(***************************************************************************)
(* Bounds of the model.                                                    *)
(***************************************************************************)
MaxFiles == 4
MaxPredFiles == 3
MaxPredYears == 2
MaxRFRows == 2
MaxRuns == 3
MaxAttrRows == 3
MaxRatioRows == 4
GridRows == 2
GridCols == 2

(***************************************************************************)
(* Text helpers.                                                           *)
(***************************************************************************)
\* the characters that occur, in ASCII order
Alphabet == <<".", "/", "0", "1", "2", "5", "6", "A", "E", "G", "M", "N", "P",
              "R", "S", "T", "W", "Y", "_", "a", "d", "f", "g", "i", "t", "v">>

Ord(c) == CHOOSE i \in 1..Len(Alphabet) : Alphabet[i] = c

\* str.rfind(ch): 0-based position of the last occurrence, -1 when absent
RFind(s, ch) ==
    LET hits == {i \in 1..Len(s) : s[i] = ch}
    IN  IF hits = {} THEN -1
        ELSE (CHOOSE i \in hits : \A j \in hits : j <= i) - 1

\* s[a:b] with Python's treatment of a negative bound
Slice(s, a, b) ==
    LET n  == Len(s)
        lo == IF a < 0 THEN (IF a + n < 0 THEN 0 ELSE a + n) ELSE (IF a > n THEN n ELSE a)
        hi == IF b < 0 THEN (IF b + n < 0 THEN 0 ELSE b + n) ELSE (IF b > n THEN n ELSE b)
    IN  IF hi <= lo THEN <<>> ELSE SubSeq(s, lo + 1, hi)

Digits == {"0", "1", "2", "5", "6"}

DigitVal(c) == CASE c = "0" -> 0 [] c = "1" -> 1 [] c = "2" -> 2
                 [] c = "5" -> 5 [] c = "6" -> 6

\* int(text) succeeds on a non-empty run of decimal digits
IsInt(s) == Len(s) > 0 /\ \A i \in 1..Len(s) : s[i] \in Digits

RECURSIVE IntOf(_)
IntOf(s) == IF Len(s) = 0 THEN 0
            ELSE 10 * IntOf(SubSeq(s, 1, Len(s) - 1)) + DigitVal(s[Len(s)])

\* lexicographic order of Python strings
RECURSIVE StrLess(_, _)
StrLess(a, b) ==
    IF Len(b) = 0 THEN FALSE
    ELSE IF Len(a) = 0 THEN TRUE
    ELSE IF a[1] = b[1] THEN StrLess(Tail(a), Tail(b))
    ELSE Ord(a[1]) < Ord(b[1])

\* sorted(names): ascending, duplicates kept
RECURSIVE Sorted(_)
Sorted(s) ==
    IF Len(s) = 0 THEN <<>>
    ELSE LET m == CHOOSE i \in 1..Len(s) :
                     \A j \in 1..Len(s) : ~StrLess(s[j], s[i]) /\ (s[j] = s[i] => i <= j)
             rest == [k \in 1..(Len(s) - 1) |-> IF k < m THEN s[k] ELSE s[k + 1]]
         IN  <<s[m]>> \o Sorted(rest)

\* sorted(list of integers): ascending
RECURSIVE SortedInts(_)
SortedInts(S) ==
    IF S = {} THEN <<>>
    ELSE LET m == CHOOSE x \in S : \A y \in S : x <= y
         IN  <<m>> \o SortedInts(S \ {m})

Range(s) == {s[i] : i \in 1..Len(s)}

RECURSIVE SelectSeqIdx(_, _)
\* the subsequence of s at the positions of the set keep, in order
SelectSeqIdx(s, keep) ==
    IF Len(s) = 0 THEN <<>>
    ELSE LET n == Len(s)
             front == SelectSeqIdx(SubSeq(s, 1, n - 1), keep)
         IN  IF n \in keep THEN Append(front, s[n]) ELSE front

(***************************************************************************)
(* Table cells and tables.                                                 *)
(***************************************************************************)
Num(n) == [t |-> "num", v |-> n]
Str(s) == [t |-> "str", v |-> s]
NaN    == [t |-> "nan", v |-> 0]
None   == [t |-> "none", v |-> 0]

\* pandas isna: NaN and None are both missing
IsNA(x) == x.t \in {"nan", "none"}

\* numpy isnan on a float array
IsNaN(x) == x.t = "nan"

ColYEAR    == <<"Y", "E", "A", "R">>
ColGW_NAME == <<"G", "W", "_", "N", "A", "M", "E">>
VarET      == <<"E", "T">>
VarP       == <<"P">>
VarSW      == <<"S", "W">>
VarWS_PA   == <<"W", "S", "_", "P", "A">>
VarGW      == <<"G", "W">>

Tif == <<".", "t", "i", "f">>
Dir == <<"d", "/">>

FileName(variable, year) == Dir \o variable \o <<"_">> \o year \o Tif

Y2015 == <<"2", "0", "1", "5">>
Y2016 == <<"2", "0", "1", "6">>

\* the raster files a directory may hold; the last one has no integer year
FileUniverse == << FileName(VarET, Y2015), FileName(VarP, Y2015),
                   FileName(VarET, Y2016), FileName(VarP, Y2016),
                   FileName(VarWS_PA, Y2016),
                   FileName(VarSW, <<"a", "v", "g">>) >>

FileId(f) == CHOOSE i \in 1..Len(FileUniverse) : FileUniverse[i] = f

NCells == GridRows * GridCols

\* ndarray.reshape(rows * cols) / ravel(): row-major flattening
Ravel(grid) == [k \in 1..NCells |-> grid[((k - 1) \div GridCols) + 1][((k - 1) % GridCols) + 1]]

\* ndarray.reshape(raster_shape): row-major 2-D view of a flat vector
Reshape2D(flat) == [r \in 1..GridRows |-> [c \in 1..GridCols |-> flat[(r - 1) * GridCols + c]]]

(***************************************************************************)
(* State.                                                                  *)
(***************************************************************************)
VARIABLES
    \* the environment of create_dataframe
    dir_files,          \* the paths glob(input_file_dir + pattern) matches
    nan_cells,          \* <<file id, row, col>> of the no-data cells of the rasters
    gw_grid,            \* the region label grid get_gw_info_arr returns
    args,               \* the arguments of the create_dataframe call
    \* the locals of create_dataframe
    pc,                 \* position in create_dataframe
    err,                \* the exception that ended the call, "" when none
    raster_file_dict,   \* year -> list of paths
    rescan_dict,        \* raster_file_dict of a second scan of the same snapshot
    raster_dict,        \* variable -> flat vector, an insertion-ordered dict
    gw_arr,             \* the flattened region labels
    years,              \* sorted(raster_file_dict.keys())
    yi,                 \* index in years of the next year to assemble
    flag,               \* df has been created
    df,                 \* the table
    raster_df_csv       \* output_dir + 'raster_df.csv'

dfvars == <<dir_files, nan_cells, gw_grid, args, pc, err, raster_file_dict, rescan_dict,
            raster_dict, gw_arr, years, yi, flag, df, raster_df_csv>>

\* the state of split_data_attribute
VARIABLES
    input_df,       \* the table to split
    sargs,          \* the arguments of the call
    spc,            \* position in split_data_attribute
    serr,           \* the exception that ended the call, "" when none
    x_train_df,
    x_test_df,
    y_train_df,     \* the pred_attr column of x_train_df, a list of values
    y_test_df,
    split_files     \* X_Train.csv, X_Test.csv, Y_Train.csv, Y_Test.csv in outdir

attrvars == <<input_df, sargs, spc, serr, x_train_df, x_test_df, y_train_df, y_test_df,
              split_files>>

\* the state of split_data_train_test_ratio
VARIABLES
    ratio_df,       \* the table to split
    rargs,          \* the arguments of the call
    rpc,            \* "start", "called" after one call, "repeated" after a second one
    ratio_out,      \* what the call left: the four tables, the files, the exception
    ratio_again     \* the same for a second call with the same table and arguments

ratiovars == <<ratio_df, rargs, rpc, ratio_out, ratio_again>>

\* the state of create_pred_raster
VARIABLES
    pred_dir,         \* the .tif files of actual_raster_dir
    pred_nan,         \* <<file id, row, col>> of their no-data cells
    pargs,            \* the arguments of the call
    ppc,              \* position in create_pred_raster
    perr,             \* the exception that ended the call, "" when none
    raster_arr_dict,  \* variable -> flat vector, and 'YEAR'
    nan_pos_dict,     \* variable -> flat boolean mask
    pred_input_df,    \* input_df
    model_out,        \* what rf_model.predict returned
    pred_features,    \* the columns handed to rf_model.predict
    pred_arr,
    actual_values,    \* the vectors handed to ma.get_error_stats
    pred_values,
    stats_called,     \* ma.get_error_stats has been called
    out_raster        \* the grid written to out_raster, <<>> when none

predvars == <<pred_dir, pred_nan, pargs, ppc, perr, raster_arr_dict, nan_pos_dict,
              pred_input_df, model_out, pred_features, pred_arr, actual_values,
              pred_values, stats_called, out_raster>>

\* the state of predict_rasters; each of its calls of create_pred_raster runs in
\* the state of create_pred_raster above
VARIABLES
    pr_args,        \* the arguments of the predict_rasters call
    pr_pc,          \* "loop" between two calls, "call" during one, "done", "error"
    pr_i,           \* index in pred_years of the year in hand
    pr_calls,       \* the create_pred_raster calls made so far, in order
    pr_files        \* the rasters in out_dir: file name -> grid

loopvars == <<pr_args, pr_pc, pr_i, pr_calls, pr_files>>

\* the state of rf_regressor, run after run on one output directory
VARIABLES
    rf_input,       \* the table handed to every run
    rf_dir,         \* out_dir: the model file, the four split files, RF_Results.csv
    rf_args,        \* the arguments of the run in hand
    rf_pc,          \* "idle" between runs, "begun", "ready", "failed"
    rf_cur,         \* the locals of the run in hand
    rf_log          \* one record per completed run, in run order

rfvars == <<rf_input, rf_dir, rf_args, rf_pc, rf_cur, rf_log>>

\* the state of a parallel fan-out of vectorops
VARIABLES
    fan_call,       \* which fan-out, with its inputs and the number of workers
    fan_pending,    \* the tasks not yet handed to a worker, in order
    fan_writing,    \* the tasks whose worker is writing its output file
    fan_written,    \* the completed writes, in order: [task, path]
    fan_raced       \* two workers have been writing one path at the same time

fanvars == <<fan_call, fan_pending, fan_writing, fan_written, fan_raced>>

\* the state of one call of add_attribute_well_reg of vectorops
VARIABLES
    kw_kwargs,      \* **kwargs: the keyword arguments passed, a set of <<name, value>>
    kw_files,       \* the csv file and the well registry shapefile read
    kw_use_only,    \* use_only_ama_ina
    kw_ids,         \* the six id settings in force
    kw_pc,          \* "start", "ids", "filled", "done", "error"
    kw_err,         \* the exception raised: <<"KeyError", key>>, <<>> if none
    kw_gdf,         \* well_reg_gdf: the rows of the registry, with the fill
    kw_out          \* the shapefile written, <<>> before

kwvars == <<kw_kwargs, kw_files, kw_use_only, kw_ids, kw_pc, kw_err, kw_gdf, kw_out>>

(***************************************************************************)
(* Insertion-ordered dicts and tables.                                     *)
(***************************************************************************)
EmptyDict == [keys |-> <<>>, vals |-> <<>>]

\* d[k] = v: a new key goes last, an old key keeps its place
DictSet(d, k, v) ==
    IF k \in Range(d.keys)
    THEN [keys |-> d.keys, vals |-> [x \in Range(d.keys) |-> IF x = k THEN v ELSE d.vals[x]]]
    ELSE [keys |-> Append(d.keys, k),
          vals |-> [x \in Range(d.keys) \cup {k} |-> IF x = k THEN v ELSE d.vals[x]]]

EmptyDF == [cols |-> <<>>, rows |-> <<>>]

\* pd.DataFrame(data=dict of equally long vectors)
DataFrame(d, n) ==
    [cols |-> d.keys,
     rows |-> [i \in 1..n |-> [k \in Range(d.keys) |-> d.vals[k][i]]]]

\* the row widened to the columns cs, NaN where it has no value
WidenRow(row, cs) == [c \in cs |-> IF c \in DOMAIN row THEN row[c] ELSE NaN]

\* an append that puts the new rows first
DfAppend_Prepend(a, b) ==
    LET new  == SelectSeq(b.cols, LAMBDA c : c \notin Range(a.cols))
        cols == a.cols \o new
        cs   == Range(cols)
    IN  [cols |-> cols,
         rows |-> [i \in 1..Len(b.rows) |-> WidenRow(b.rows[i], cs)]
                  \o [i \in 1..Len(a.rows) |-> WidenRow(a.rows[i], cs)]]

\* df.append(other): rows of df, then rows of other, over the union of the columns
DfAppend(a, b) ==
    LET new  == SelectSeq(b.cols, LAMBDA c : c \notin Range(a.cols))
        cols == a.cols \o new
        cs   == Range(cols)
    IN  [cols |-> cols,
         rows |-> [i \in 1..Len(a.rows) |-> WidenRow(a.rows[i], cs)]
                  \o [i \in 1..Len(b.rows) |-> WidenRow(b.rows[i], cs)]]

\* df[col] = list, the list as long as the table
DfSetCol(d, col, vals) ==
    LET cols == IF col \in Range(d.cols) THEN d.cols ELSE Append(d.cols, col)
    IN  [cols |-> cols,
         rows |-> [i \in 1..Len(d.rows) |->
                      [c \in Range(cols) |-> IF c = col THEN vals[i] ELSE d.rows[i][c]]]]

\* df.dropna(axis=0): the rows without a missing value, in order
DropNA(d) ==
    [cols |-> d.cols,
     rows |-> SelectSeq(d.rows, LAMBDA row : \A c \in Range(d.cols) : ~IsNA(row[c]))]

\* df.reindex(names, axis=1): exactly the columns names; a column the table
\* does not have is created and filled with NaN
DfReindexCols(d, names) ==
    [cols |-> names,
     rows |-> [i \in 1..Len(d.rows) |-> WidenRow(d.rows[i], Range(names))]]

\* a reindexing that sorts only when the caller asks for it
reindex_df_OrderingAsGiven(d, column_names, ordering) ==
    LET names == IF column_names = <<>> THEN d.cols ELSE column_names
    IN  DfReindexCols(d, IF ordering THEN Sorted(names) ELSE names)

\* reindex_df(df, column_names, ordering); column_names None or empty is <<>>
reindex_df(d, column_names, ordering) ==
    LET names == IF column_names = <<>> THEN d.cols ELSE column_names
        ord   == IF column_names = <<>> THEN TRUE ELSE ordering
    IN  DfReindexCols(d, IF ord THEN Sorted(names) ELSE names)

(***************************************************************************)
(* An operation that is not called leaves its state idle.                  *)
(***************************************************************************)
IdleDF ==
    /\ dir_files = {} /\ nan_cells = {} /\ gw_grid = <<>> /\ args = <<>>
    /\ pc = "idle" /\ err = "" /\ raster_file_dict = <<>> /\ rescan_dict = <<>>
    /\ raster_dict = EmptyDict /\ gw_arr = <<>> /\ years = <<>> /\ yi = 1
    /\ flag = FALSE /\ df = EmptyDF /\ raster_df_csv = EmptyDF

IdleAttr ==
    /\ input_df = EmptyDF /\ sargs = <<>> /\ spc = "idle" /\ serr = ""
    /\ x_train_df = EmptyDF /\ x_test_df = EmptyDF /\ y_train_df = <<>>
    /\ y_test_df = <<>> /\ split_files = <<>>

IdleRatio ==
    /\ ratio_df = EmptyDF /\ rargs = <<>> /\ rpc = "idle"
    /\ ratio_out = <<>> /\ ratio_again = <<>>

IdlePred ==
    /\ pred_dir = {} /\ pred_nan = {} /\ pargs = <<>> /\ ppc = "idle" /\ perr = ""
    /\ raster_arr_dict = EmptyDict /\ nan_pos_dict = EmptyDict /\ pred_input_df = EmptyDF
    /\ model_out = <<>> /\ pred_features = <<>> /\ pred_arr = <<>>
    /\ actual_values = <<>> /\ pred_values = <<>> /\ stats_called = FALSE
    /\ out_raster = <<>>

IdleLoop ==
    /\ pr_args = <<>> /\ pr_pc = "idle" /\ pr_i = 1 /\ pr_calls = <<>> /\ pr_files = <<>>

IdleRF ==
    /\ rf_input = EmptyDF /\ rf_dir = <<>> /\ rf_args = <<>> /\ rf_pc = "off"
    /\ rf_cur = <<>> /\ rf_log = <<>>

IdleFan ==
    /\ fan_call = <<>> /\ fan_pending = <<>> /\ fan_writing = {} /\ fan_written = <<>>
    /\ fan_raced = FALSE

IdleKw ==
    /\ kw_kwargs = {} /\ kw_files = <<>> /\ kw_use_only = FALSE /\ kw_ids = <<>>
    /\ kw_pc = "idle" /\ kw_err = <<>> /\ kw_gdf = <<>> /\ kw_out = <<>>

vars == <<dfvars, attrvars, ratiovars, predvars, loopvars, rfvars, fanvars, kwvars>>

\* what each operation leaves alone: the state of the other operations
OthersDF    == <<attrvars, ratiovars, predvars, loopvars, rfvars, fanvars, kwvars>>
OthersAttr  == <<dfvars, ratiovars, predvars, loopvars, rfvars, fanvars, kwvars>>
OthersRatio == <<dfvars, attrvars, predvars, loopvars, rfvars, fanvars, kwvars>>
OthersPred  == <<dfvars, attrvars, ratiovars, rfvars, fanvars, kwvars>>
OthersRF    == <<dfvars, attrvars, ratiovars, predvars, loopvars, fanvars, kwvars>>
OthersFan   == <<dfvars, attrvars, ratiovars, predvars, loopvars, rfvars, kwvars>>
OthersKw    == <<dfvars, attrvars, ratiovars, predvars, loopvars, rfvars, fanvars>>

(***************************************************************************)
(* create_dataframe.                                                       *)
(***************************************************************************)
\* every order in which glob can return the files of the set S
RECURSIVE Orders(_)
Orders(S) == IF S = {} THEN {<<>>}
             ELSE UNION {{<<x>> \o o : o \in Orders(S \ {x})} : x \in S}

\* f[f.rfind(os.sep) + 1: sep] with sep = f.rfind('_')
ParseVariable(f) == Slice(f, RFind(f, "/") + 1, RFind(f, "_"))

\* f[sep + 1: f.rfind('.')] with sep = f.rfind('_')
ParseYear(f) == Slice(f, RFind(f, "_") + 1, RFind(f, "."))

\* the filter without the test of the year
Included_VarOnly(variable, year, exclude_vars, exclude_years) ==
    variable \notin exclude_vars

\* the filter of the scan: the file goes into the mapping
Included(variable, year, exclude_vars, exclude_years) ==
    variable \notin exclude_vars /\ IntOf(year) \notin exclude_years

\* defaultdict: d[year].append(f)
DictAppend(d, year, f) ==
    IF year \in DOMAIN d
    THEN [y \in DOMAIN d |-> IF y = year THEN Append(d[y], f) ELSE d[y]]
    ELSE [y \in DOMAIN d \cup {year} |-> IF y = year THEN <<f>> ELSE d[y]]

\* one iteration of the scan loop; int(year) is evaluated only for a variable
\* that is not excluded ('and' short-circuits) and raises on a non-integer
ScanFile(st, f, exclude_vars, exclude_years) ==
    LET variable == ParseVariable(f)
        year     == ParseYear(f)
    IN  IF st.err /= "" THEN st
        ELSE IF variable \in exclude_vars THEN st
        ELSE IF ~IsInt(year) THEN [st EXCEPT !.err = "ValueError"]
        ELSE IF Included(variable, year, exclude_vars, exclude_years)
             THEN [st EXCEPT !.d = DictAppend(st.d, IntOf(year), f)]
             ELSE st

\* the scan loop over the files in glob's order
RECURSIVE ScanLoop(_, _, _)
ScanLoop(order, exclude_vars, exclude_years) ==
    IF Len(order) = 0 THEN [d |-> <<>>, err |-> ""]
    ELSE ScanFile(ScanLoop(SubSeq(order, 1, Len(order) - 1), exclude_vars, exclude_years),
                  order[Len(order)], exclude_vars, exclude_years)

\* what the scan can leave behind: one result per order of glob
ScanResults(files, exclude_vars, exclude_years) ==
    {ScanLoop(order, exclude_vars, exclude_years) : order \in Orders(files)}

\* the grid of raster number id: NaN at its no-data cells nans, elsewhere a
\* value that tells the raster and the cell
RasterGrid(id, nans) ==
    [r \in 1..GridRows |-> [c \in 1..GridCols |->
        IF <<id, r, c>> \in nans THEN NaN ELSE Num(100 * id + 10 * r + c)]]

\* rops.read_raster_as_arr(raster_file, get_file=False): the grid of the file
read_raster_as_arr(f) == RasterGrid(FileId(f), nan_cells)

\* the inner loop of the assembly: every file of the year is read, flattened
\* and stored under its variable
RECURSIVE ReadYear(_, _)
ReadYear(d, file_list) ==
    IF Len(file_list) = 0 THEN d
    ELSE LET raster_file == file_list[Len(file_list)]
             before      == ReadYear(d, SubSeq(file_list, 1, Len(file_list) - 1))
             variable    == Slice(raster_file, RFind(raster_file, "/") + 1,
                                  RFind(raster_file, "_"))
         IN  DictSet(before, variable, Ravel(read_raster_as_arr(raster_file)))

\* list * n
RECURSIVE Repeat(_, _)
Repeat(s, n) == IF n <= 0 THEN <<>> ELSE s \o Repeat(s, n - 1)

ExcludeVarsChoices  == {{}, {VarP}, {VarSW}}
ExcludeYearsChoices == {{}, {2016}}
ColumnNamesChoices  == {<<>>, <<ColYEAR, VarP, VarET, ColGW_NAME>>, <<VarET, VarSW>>}
NanCellsChoices     == {{}, {<<1, 1, 2>>, <<4, 2, 1>>}}

GwAllA     == [r \in 1..GridRows |-> [c \in 1..GridCols |-> Str("A")]]
GwWithNull == [r \in 1..GridRows |-> [c \in 1..GridCols |->
                  IF r = 1 /\ c = 1 THEN None ELSE Str("A")]]

InitDF ==
    /\ dir_files \in {D \in SUBSET Range(FileUniverse) : Cardinality(D) <= MaxFiles}
    /\ nan_cells \in NanCellsChoices
    /\ gw_grid \in {GwAllA, GwWithNull}
    /\ args \in [exclude_vars : ExcludeVarsChoices, exclude_years : ExcludeYearsChoices,
                  column_names : ColumnNamesChoices, make_year_col : BOOLEAN,
                  ordering : BOOLEAN, remove_na : BOOLEAN]
    /\ pc = "start"
    /\ err = ""
    /\ raster_file_dict = <<>>
    /\ rescan_dict = <<>>
    /\ raster_dict = EmptyDict
    /\ gw_arr = <<>>
    /\ years = <<>>
    /\ yi = 1
    /\ flag = FALSE
    /\ df = EmptyDF
    /\ raster_df_csv = EmptyDF
    /\ IdleAttr /\ IdleRatio /\ IdlePred /\ IdleLoop /\ IdleRF /\ IdleFan /\ IdleKw

\* lines 45-50: the scan of the directory, in the order glob returns it
Scan ==
    /\ pc = "start"
    /\ \E st \in ScanResults(dir_files, args.exclude_vars, args.exclude_years) :
             /\ raster_file_dict' = st.d
             /\ err' = st.err
             /\ pc' = IF st.err = "" THEN "scanned" ELSE "error"
    /\ UNCHANGED <<dir_files, nan_cells, gw_grid, args, rescan_dict, raster_dict, gw_arr,
                   years, yi, flag, df, raster_df_csv>>
    /\ UNCHANGED OthersDF

\* the same scan run once more on the unchanged directory
Rescan ==
    /\ pc = "scanned"
    /\ \E st \in ScanResults(dir_files, args.exclude_vars, args.exclude_years) :
             /\ rescan_dict' = st.d
             /\ err' = st.err
             /\ pc' = IF st.err = "" THEN "rescanned" ELSE "error"
    /\ UNCHANGED <<dir_files, nan_cells, gw_grid, args, raster_file_dict, raster_dict, gw_arr,
                   years, yi, flag, df, raster_df_csv>>
    /\ UNCHANGED OthersDF

\* lines 51-58: the sorted years and the region labels; years[0] raises when
\* no file was kept
Setup ==
    /\ pc = "scanned"
    /\ LET ys == SortedInts(DOMAIN raster_file_dict)
       IN  IF Len(ys) = 0
           THEN /\ pc' = "error"
                /\ err' = "IndexError"
                /\ UNCHANGED <<years, gw_arr>>
           ELSE /\ pc' = "assemble"
                /\ years' = ys
                /\ gw_arr' = Ravel(gw_grid)
                /\ UNCHANGED err
    /\ UNCHANGED <<dir_files, nan_cells, gw_grid, args, raster_file_dict, rescan_dict,
                   raster_dict, yi, flag, df, raster_df_csv>>
    /\ UNCHANGED OthersDF

\* lines 59-72: one iteration of the loop over the years
AssembleYear ==
    /\ pc = "assemble"
    /\ yi <= Len(years)
    /\ LET year == years[yi]
           d1   == ReadYear(raster_dict, raster_file_dict[year])
           d2   == IF args.make_year_col
                   THEN DictSet(d1, ColYEAR, [k \in 1..NCells |-> Num(year)])
                   ELSE d1
       IN  /\ raster_dict' = d2
           /\ df' = IF ~flag THEN DataFrame(d2, NCells)
                    ELSE DfAppend(df, DataFrame(d2, NCells))
    /\ flag' = TRUE
    /\ yi' = yi + 1
    /\ UNCHANGED <<dir_files, nan_cells, gw_grid, args, pc, err, raster_file_dict,
                   rescan_dict, gw_arr, years, raster_df_csv>>
    /\ UNCHANGED OthersDF

\* line 73: the region label column
AttachGW ==
    /\ pc = "assemble"
    /\ yi > Len(years)
    /\ df' = DfSetCol(df, ColGW_NAME, Repeat(gw_arr, Len(years)))
    /\ pc' = "labelled"
    /\ UNCHANGED <<dir_files, nan_cells, gw_grid, args, err, raster_file_dict, rescan_dict,
                   raster_dict, gw_arr, years, yi, flag, raster_df_csv>>
    /\ UNCHANGED OthersDF

\* lines 74-79: missing-value removal, reindexing, raster_df.csv, return
Finish ==
    /\ pc = "labelled"
    /\ LET d1 == IF args.remove_na THEN DropNA(df) ELSE df
           d2 == reindex_df(d1, args.column_names, args.ordering)
       IN  /\ df' = d2
           /\ raster_df_csv' = d2
    /\ pc' = "done"
    /\ UNCHANGED <<dir_files, nan_cells, gw_grid, args, err, raster_file_dict, rescan_dict,
                   raster_dict, gw_arr, years, yi, flag>>
    /\ UNCHANGED OthersDF

NextDF == Scan \/ Rescan \/ Setup \/ AssembleYear \/ AttachGW \/ Finish

(***************************************************************************)
(* Seeded shuffling (numpy RandomState behind sklearn.utils.shuffle and    *)
(* train_test_split): the permutation is a function of the seed and of the *)
(* number of rows only.                                                    *)
(***************************************************************************)
\* the generator's next state
NextRand(s) == (5 * s + 3) % 16

\* Fisher-Yates from the last position down, one draw per position
RECURSIVE FisherYates(_, _, _)
FisherYates(p, i, s) ==
    IF i <= 1 THEN p
    ELSE LET s1 == NextRand(s)
             j  == (s1 % i) + 1
             q  == [k \in 1..Len(p) |-> IF k = i THEN p[j] ELSE IF k = j THEN p[i] ELSE p[k]]
         IN  FisherYates(q, i - 1, s1)

\* RandomState(seed).permutation(n)
Permutation(seed, n) == FisherYates([k \in 1..n |-> k], n, seed)

\* sk.shuffle(rows, random_state=seed)
Shuffle(rows, seed) ==
    LET p == Permutation(seed, Len(rows))
    IN  [i \in 1..Len(rows) |-> rows[p[i]]]

(***************************************************************************)
(* split_data_attribute.                                                   *)
(***************************************************************************)

SplitCols == <<VarET, VarGW, ColYEAR, ColGW_NAME>>

\* row i of an input table: ET tells the rows apart, GW is the target
SplitRow(i, year, gw) ==
    [c \in Range(SplitCols) |->
        CASE c = VarET      -> Num(100 + i)
          [] c = VarGW      -> Num(10 + i)
          [] c = ColYEAR    -> Num(year)
          [] c = ColGW_NAME -> Str(gw)]

\* every table of at most n rows over the years and regions of the model
InputTables(n) ==
    UNION {{[cols |-> SplitCols,
             rows |-> [i \in 1..k |-> SplitRow(i, ys[i], gs[i])]] :
               ys \in [1..k -> {2015, 2016}], gs \in [1..k -> {"A", "B"}]} : k \in 0..n}

\* set(input_df[label])
ColumnSet(d, label) == {d.rows[i][label] : i \in 1..Len(d.rows)}

\* input_df.loc[input_df[label] == value]
RowsEq(d, label, value) ==
    [cols |-> d.cols, rows |-> SelectSeq(d.rows, LAMBDA row : row[label] = value)]

\* input_df.loc[input_df[label] != value]
RowsNeq(d, label, value) ==
    [cols |-> d.cols, rows |-> SelectSeq(d.rows, LAMBDA row : row[label] /= value)]

\* df[col] raises KeyError on a table without that column
HasCol(d, col) == col \in Range(d.cols)

\* df[col] as a list
Column(d, col) == [i \in 1..Len(d.rows) |-> d.rows[i][col]]

\* the loop with every partition value routed to train, held out or not
RECURSIVE AttributeLoop_TrainAlways(_, _, _, _)
AttributeLoop_TrainAlways(d, label, order, test_vars) ==
    IF Len(order) = 0 THEN [train |-> EmptyDF, test |-> EmptyDF]
    ELSE LET before == AttributeLoop_TrainAlways(d, label, SubSeq(order, 1, Len(order) - 1),
                                                 test_vars)
             svar   == order[Len(order)]
             x_t    == RowsEq(d, label, svar)
         IN  IF svar \notin Range(test_vars)
             THEN [before EXCEPT !.train = DfAppend(before.train, x_t)]
             ELSE [train |-> DfAppend(before.train, x_t), test |-> DfAppend(before.test, x_t)]

\* lines 187-193: the loop over the partition values, in the set's iteration order
RECURSIVE AttributeLoop(_, _, _, _)
AttributeLoop(d, label, order, test_vars) ==
    IF Len(order) = 0 THEN [train |-> EmptyDF, test |-> EmptyDF]
    ELSE LET before == AttributeLoop(d, label, SubSeq(order, 1, Len(order) - 1), test_vars)
             svar   == order[Len(order)]
             x_t    == RowsEq(d, label, svar)
         IN  IF svar \notin Range(test_vars)
             THEN [before EXCEPT !.train = DfAppend(before.train, x_t)]
             ELSE [before EXCEPT !.test = DfAppend(before.test, x_t)]

\* the carve-out that copies the rows of a test year and leaves them in train
RECURSIVE CarveLoop_KeepTrain(_, _)
CarveLoop_KeepTrain(st, test_years) ==
    IF Len(test_years) = 0 THEN st
    ELSE LET before == CarveLoop_KeepTrain(st, SubSeq(test_years, 1, Len(test_years) - 1))
             year   == Num(test_years[Len(test_years)])
         IN  IF before.err /= "" THEN before
             ELSE IF ~HasCol(before.train, ColYEAR) THEN [before EXCEPT !.err = "KeyError"]
             ELSE [train |-> before.train,
                   test  |-> DfAppend(before.test, RowsEq(before.train, ColYEAR, year)),
                   err   |-> ""]

\* lines 195-198: the carve-out of the test years from the training rows;
\* x_train_df['YEAR'] raises on a table that never received a row
RECURSIVE CarveLoop(_, _)
CarveLoop(st, test_years) ==
    IF Len(test_years) = 0 THEN st
    ELSE LET before == CarveLoop(st, SubSeq(test_years, 1, Len(test_years) - 1))
             year   == Num(test_years[Len(test_years)])
         IN  IF before.err /= "" THEN before
             ELSE IF ~HasCol(before.train, ColYEAR) THEN [before EXCEPT !.err = "KeyError"]
             ELSE [train |-> RowsNeq(before.train, ColYEAR, year),
                   test  |-> DfAppend(before.test, RowsEq(before.train, ColYEAR, year)),
                   err   |-> ""]

\* lines 202 and 204: x_..._df = sk.shuffle(x_..._df, random_state=random_state)
ShuffleFeatures(d, random_state) == [d EXCEPT !.rows = Shuffle(@, random_state)]

\* a target column shuffled by a generator that has already been drawn from
ShuffleTargets_Reseeded(y, random_state) == Shuffle(y, NextRand(random_state))

\* lines 203 and 205: y_..._df = sk.shuffle(y_..._df, random_state=random_state)
ShuffleTargets(y, random_state) == Shuffle(y, random_state)

TestYearsChoices == {<<2016>>, <<2015, 2015>>, <<2017>>}
TestGwsChoices   == {<<"A">>, <<"Z">>, <<"A", "B">>}

InitAttr ==
    /\ input_df \in InputTables(MaxAttrRows)
    /\ sargs \in [use_gws : BOOLEAN, test_years : TestYearsChoices, test_gws : TestGwsChoices,
                   spatio_temporal : BOOLEAN, shuffle : BOOLEAN, random_state : {0, 1},
                   outdir : BOOLEAN]
    /\ spc = "start"
    /\ serr = ""
    /\ x_train_df = EmptyDF
    /\ x_test_df = EmptyDF
    /\ y_train_df = <<>>
    /\ y_test_df = <<>>
    /\ split_files = <<>>
    /\ IdleDF /\ IdleRatio /\ IdlePred /\ IdleLoop /\ IdleRF /\ IdleFan /\ IdleKw

\* lines 176-193: whole partition values go to train or to test
PartitionByAttribute ==
    /\ spc = "start"
    /\ LET label     == IF sargs.use_gws THEN ColGW_NAME ELSE ColYEAR
           test_vars == IF sargs.use_gws
                        THEN [i \in 1..Len(sargs.test_gws) |-> Str(sargs.test_gws[i])]
                        ELSE [i \in 1..Len(sargs.test_years) |-> Num(sargs.test_years[i])]
       IN  \E st \in {AttributeLoop(input_df, label, order, test_vars) :
                         order \in Orders(ColumnSet(input_df, label))} :
               /\ x_train_df' = st.train
               /\ x_test_df' = st.test
    /\ spc' = "partitioned"
    /\ UNCHANGED <<input_df, sargs, serr, y_train_df, y_test_df, split_files>>
    /\ UNCHANGED OthersAttr

\* lines 194-198: the spatio-temporal carve-out
CarveOut ==
    /\ spc = "partitioned"
    /\ sargs.spatio_temporal /\ sargs.use_gws
    /\ LET st == CarveLoop([train |-> x_train_df, test |-> x_test_df, err |-> ""],
                           sargs.test_years)
       IN  /\ x_train_df' = st.train
           /\ x_test_df' = st.test
           /\ serr' = st.err
           /\ spc' = IF st.err = "" THEN "carved" ELSE "error"
    /\ UNCHANGED <<input_df, sargs, y_train_df, y_test_df, split_files>>
    /\ UNCHANGED OthersAttr

\* lines 199-212: targets, shuffling, the four files, return
ShuffleAndReturn ==
    /\ \/ spc = "carved"
       \/ spc = "partitioned" /\ ~(sargs.spatio_temporal /\ sargs.use_gws)
    /\ IF ~HasCol(x_train_df, VarGW) \/ ~HasCol(x_test_df, VarGW)
       THEN /\ spc' = "error"
            /\ serr' = "KeyError"
            /\ UNCHANGED <<x_train_df, x_test_df, y_train_df, y_test_df, split_files>>
       ELSE LET y_tr == Column(x_train_df, VarGW)
                y_te == Column(x_test_df, VarGW)
                xs_tr == IF sargs.shuffle
                         THEN ShuffleFeatures(x_train_df, sargs.random_state)
                         ELSE x_train_df
                ys_tr == IF sargs.shuffle
                         THEN ShuffleTargets(y_tr, sargs.random_state) ELSE y_tr
                xs_te == IF sargs.shuffle
                         THEN ShuffleFeatures(x_test_df, sargs.random_state)
                         ELSE x_test_df
                ys_te == IF sargs.shuffle
                         THEN ShuffleTargets(y_te, sargs.random_state) ELSE y_te
            IN  /\ x_train_df' = xs_tr
                /\ y_train_df' = ys_tr
                /\ x_test_df' = xs_te
                /\ y_test_df' = ys_te
                /\ split_files' = IF sargs.outdir
                                  THEN [X_Train |-> xs_tr, X_Test |-> xs_te,
                                        Y_Train |-> ys_tr, Y_Test |-> ys_te]
                                  ELSE split_files
                /\ spc' = "done"
                /\ UNCHANGED serr
    /\ UNCHANGED <<input_df, sargs>>
    /\ UNCHANGED OthersAttr

NextAttr == PartitionByAttribute \/ CarveOut \/ ShuffleAndReturn

(***************************************************************************)
(* split_data_train_test_ratio.                                            *)
(***************************************************************************)

\* sklearn's _validate_shuffle_split: n_test = ceil(test_size * n), test_size a
\* fraction <<numerator, denominator>>
NTest(n, test_size) == (n * test_size[1] + test_size[2] - 1) \div test_size[2]

\* train_test_split(rows, shuffle, random_state, test_size): the positions that
\* go to train and to test; the first n_test of the permutation are the test
\* rows, without shuffling the last n_test rows are
TrainTestIndices(n, shuffle, random_state, test_size) ==
    LET n_test  == NTest(n, test_size)
        n_train == n - n_test
        p       == Permutation(random_state, n)
    IN  IF shuffle
        THEN [train |-> [i \in 1..n_train |-> p[n_test + i]],
              test  |-> [i \in 1..n_test |-> p[i]]]
        ELSE [train |-> [i \in 1..n_train |-> i],
              test  |-> [i \in 1..n_test |-> n_train + i]]

\* the rows at the given positions
Take(rows, idx) == [i \in 1..Len(idx) |-> rows[idx[i]]]

\* line 131: the test rows come from one partition value only
RatioFlag(d, a) ==
    \/ a.test_year \in ColumnSet(d, ColYEAR)
    \/ (a.use_gw /\ a.test_gw \in ColumnSet(d, ColGW_NAME))

EmptyRatio == [x_train |-> EmptyDF, x_test |-> EmptyDF, y_train |-> <<>>, y_test |-> <<>>,
               got_y_train |-> FALSE, got_y_test |-> FALSE, err |-> "", nth |-> 0]

\* one iteration of the loop of lines 140-149 with the given seed
RatioStep(st, d, a, svar, seed) ==
    LET label    == IF a.use_gw THEN ColGW_NAME ELSE ColYEAR
        test_var == IF a.use_gw THEN a.test_gw ELSE a.test_year
        one_only == RatioFlag(d, a)
        selected == RowsEq(d, label, svar)
        n        == Len(selected.rows)
        idx      == TrainTestIndices(n, a.shuffle, seed, a.test_size)
        x_train  == [selected EXCEPT !.rows = Take(@, idx.train)]
        x_test   == [selected EXCEPT !.rows = Take(@, idx.test)]
        to_test  == (one_only /\ test_var = svar) \/ ~one_only
    IN  IF st.err /= "" THEN st
        ELSE IF n - NTest(n, a.test_size) = 0 THEN [st EXCEPT !.err = "ValueError"]
        ELSE [x_train |-> DfAppend(st.x_train, x_train),
              x_test  |-> IF to_test THEN DfAppend(st.x_test, x_test) ELSE st.x_test,
              y_train |-> st.y_train \o Column(x_train, VarGW),
              y_test  |-> IF to_test THEN st.y_test \o Column(x_test, VarGW) ELSE st.y_test,
              got_y_train |-> TRUE,
              got_y_test  |-> st.got_y_test \/ to_test,
              err |-> "",
              nth |-> st.nth + 1]

\* a loop whose generator is shared by the groups instead of being seeded anew
RECURSIVE RatioLoop_SharedRng(_, _, _)
RatioLoop_SharedRng(d, a, order) ==
    IF Len(order) = 0 THEN EmptyRatio
    ELSE LET before == RatioLoop_SharedRng(d, a, SubSeq(order, 1, Len(order) - 1))
         IN  RatioStep(before, d, a, order[Len(order)], a.random_state + before.nth)

\* lines 140-149: the loop over the partition values in the set's iteration
\* order; every group is split with random_state
RECURSIVE RatioLoop(_, _, _)
RatioLoop(d, a, order) ==
    IF Len(order) = 0 THEN EmptyRatio
    ELSE RatioStep(RatioLoop(d, a, SubSeq(order, 1, Len(order) - 1)), d, a,
                   order[Len(order)], a.random_state)

\* lines 151-157 after the loop: the files are written, then y_..._df[0] raises
\* on a target table that never received a group; a split that raised inside
\* the loop leaves nothing behind
RatioReturn(st, a) ==
    IF st.err /= "" THEN [EmptyRatio EXCEPT !.err = st.err] @@ [files |-> <<>>]
    ELSE [st EXCEPT !.nth = 0,
                    !.err = IF st.got_y_train /\ st.got_y_test THEN "" ELSE "KeyError"]
         @@ [files |-> IF a.outdir
                       THEN [X_Train |-> st.x_train, X_Test |-> st.x_test,
                             Y_Train |-> st.y_train, Y_Test |-> st.y_test]
                       ELSE <<>>]

\* split_data_train_test_ratio(ratio_df, ...): every result the iteration
\* order of the set of partition values allows
RatioResults(d, a) ==
    LET label == IF a.use_gw THEN ColGW_NAME ELSE ColYEAR
    IN  {RatioReturn(RatioLoop(d, a, order), a) : order \in Orders(ColumnSet(d, label))}

TestYearChoices == {None, Num(2015), Num(2017)}
TestGwChoices   == {None, Str("A"), Str("Z")}
TestSizeChoices == {<<1, 5>>, <<1, 2>>}

InitRatio ==
    /\ ratio_df \in InputTables(MaxRatioRows)
    /\ rargs \in [use_gw : BOOLEAN, test_year : TestYearChoices, test_gw : TestGwChoices,
                   shuffle : BOOLEAN, random_state : {0, 1}, test_size : TestSizeChoices,
                   outdir : {TRUE}]
    /\ rpc = "start"
    /\ ratio_out = <<>>
    /\ ratio_again = <<>>
    /\ IdleDF /\ IdleAttr /\ IdlePred /\ IdleLoop /\ IdleRF /\ IdleFan /\ IdleKw

\* lines 124-157: one call
SplitRatio ==
    /\ rpc = "start"
    /\ ratio_out' \in RatioResults(ratio_df, rargs)
    /\ rpc' = "called"
    /\ UNCHANGED <<ratio_df, rargs, ratio_again>>
    /\ UNCHANGED OthersRatio

\* a second call with the same table, arguments and random_state
SplitRatioAgain ==
    /\ rpc = "called"
    /\ ratio_again' \in RatioResults(ratio_df, rargs)
    /\ rpc' = "repeated"
    /\ UNCHANGED <<ratio_df, rargs, ratio_out>>
    /\ UNCHANGED OthersRatio

NextRatio == SplitRatio \/ SplitRatioAgain

(***************************************************************************)
(* create_pred_raster.                                                     *)
(***************************************************************************)

\* the files a prediction directory may hold: three rasters of 2015, one of
\* 2016 and one whose name goes on after '_2015'
PredUniverse == << FileName(VarET, Y2015), FileName(VarP, Y2015), FileName(VarGW, Y2015),
                   FileName(VarET, Y2016),
                   FileName(VarSW, Y2015 \o <<"_">> \o <<"v", "2">>) >>

PredFileId(f) == CHOOSE i \in 1..Len(PredUniverse) : PredUniverse[i] = f

\* actual_file.nodata of the rasters
NoData == Num(0 - 9999)

\* glob(actual_raster_dir + '*_' + str(pred_year) + '*.tif'): the file name has
\* '_<year>' somewhere and '.tif' at its end, after it
GlobMatch(f, year) ==
    LET base == Slice(f, RFind(f, "/") + 1, Len(f))
        pat  == <<"_">> \o year
        n    == Len(base)
    IN  \E i \in 1..n :
          /\ i + Len(pat) - 1 <= n
          /\ SubSeq(base, i, i + Len(pat) - 1) = pat
          /\ i + Len(pat) + Len(Tif) - 1 <= n
          /\ SubSeq(base, n - Len(Tif) + 1, n) = Tif

\* rops.read_raster_as_arr(raster_file): the grid of a file of the directory
ReadPredRaster(f) == RasterGrid(PredFileId(f), pred_nan)

\* lines 410-420: one iteration of the loop over the files
PredReadFile(st, raster_file, a) ==
    LET sep        == RFind(raster_file, "_")
        variable   == Slice(raster_file, RFind(raster_file, "/") + 1, sep)
        year       == Slice(raster_file, sep + 1, RFind(raster_file, "."))
        raster_arr == Ravel(ReadPredRaster(raster_file))
        nan_pos    == [k \in 1..NCells |-> IsNaN(raster_arr[k])]
        filled     == IF ~a.only_pred
                      THEN [k \in 1..NCells |-> IF nan_pos[k] THEN Num(0) ELSE raster_arr[k]]
                      ELSE raster_arr
    IN  IF variable \in a.exclude_vars THEN st
        ELSE [arrs  |-> DictSet(DictSet(st.arrs, variable, filled), ColYEAR,
                                [k \in 1..NCells |-> Str(year)]),
              masks |-> DictSet(st.masks, variable, nan_pos)]

\* lines 409-420: the loop over the files in glob's order
RECURSIVE PredReadLoop(_, _)
PredReadLoop(order, a) ==
    IF Len(order) = 0 THEN [arrs |-> EmptyDict, masks |-> EmptyDict]
    ELSE PredReadFile(PredReadLoop(SubSeq(order, 1, Len(order) - 1), a), order[Len(order)], a)

\* restoring the sentinel under the mask of one variable only
RestoreNoData_LastOnly(arr, masks) ==
    IF Len(masks.keys) = 0 THEN arr
    ELSE [k \in 1..Len(arr) |->
            IF masks.vals[masks.keys[Len(masks.keys)]][k] THEN NoData ELSE arr[k]]

\* lines 433-434, 444-446: for nan_pos in nan_pos_dict.values(): arr[nan_pos] = nodata
RestoreNoData(arr, masks) ==
    [k \in 1..Len(arr) |->
        IF \E v \in Range(masks.keys) : masks.vals[v][k] THEN NoData ELSE arr[k]]

\* lines 447-448: arr[arr != actual_file.nodata]
DropNoData(arr) == SelectSeq(arr, LAMBDA x : x /= NoData)

\* df.drop(columns=names) raises KeyError unless every name is a column
CanDrop(d, names) == Range(names) \subseteq Range(d.cols)

\* df.drop(columns=names)
DfDrop(d, names) ==
    LET cols == SelectSeq(d.cols, LAMBDA c : c \notin Range(names))
    IN  [cols |-> cols,
         rows |-> [i \in 1..Len(d.rows) |-> [c \in Range(cols) |-> d.rows[i][c]]]]

\* what rf_model.predict may return for n rows: a value that tells the row,
\* or the no-data value itself at one row
PredictOutputs(n) ==
    {[i \in 1..n |-> IF i = j THEN NoData ELSE Num(900 + i)] : j \in 0..n}

PredExcludeChoices == {{}, {VarP}}
PredColumnChoices  == {<<>>, <<VarET, VarGW, VarP, ColYEAR>>}
PredDropChoices    == {<<>>, <<ColYEAR>>}
PredNanChoices     == {{}, {<<3, 1, 1>>}, {<<1, 1, 2>>, <<3, 2, 1>>, <<5, 2, 2>>}}

InitPred ==
    /\ pred_dir \in {D \in SUBSET Range(PredUniverse) : Cardinality(D) <= MaxPredFiles}
    /\ pred_nan \in PredNanChoices
    /\ pargs \in [exclude_vars : PredExcludeChoices, column_names : PredColumnChoices,
                   drop_attrs : PredDropChoices, only_pred : BOOLEAN,
                   calculate_errors : BOOLEAN, ordering : BOOLEAN, pred_year : {Y2015}]
    /\ ppc = "start"
    /\ perr = ""
    /\ raster_arr_dict = EmptyDict
    /\ nan_pos_dict = EmptyDict
    /\ pred_input_df = EmptyDF
    /\ model_out = <<>>
    /\ pred_features = <<>>
    /\ pred_arr = <<>>
    /\ actual_values = <<>>
    /\ pred_values = <<>>
    /\ stats_called = FALSE
    /\ out_raster = <<>>
    /\ IdleDF /\ IdleAttr /\ IdleRatio /\ IdleLoop /\ IdleRF /\ IdleFan /\ IdleKw

\* lines 404-424: the rasters of the year are read into the table
ReadRasters ==
    /\ ppc = "start"
    /\ LET raster_files == {f \in pred_dir : GlobMatch(f, pargs.pred_year)}
       IN  \E st \in {PredReadLoop(order, pargs) : order \in Orders(raster_files)} :
             /\ raster_arr_dict' = st.arrs
             /\ nan_pos_dict' = st.masks
             /\ pred_input_df' =
                   reindex_df(DropNA(DataFrame(st.arrs,
                                               IF Len(st.arrs.keys) = 0 THEN 0 ELSE NCells)),
                              pargs.column_names, pargs.ordering)
    /\ ppc' = "tabled"
    /\ UNCHANGED <<pred_dir, pred_nan, pargs, perr, model_out, pred_features, pred_arr,
                   actual_values, pred_values, stats_called, out_raster>>
    /\ UNCHANGED <<OthersPred, loopvars>>

\* lines 425-435: prediction without error metrics
PredictOnly ==
    /\ ppc = "tabled"
    /\ ~pargs.calculate_errors
    /\ LET drop_cols == IF pargs.column_names = <<>> THEN pargs.drop_attrs
                        ELSE <<VarGW>> \o pargs.drop_attrs
           x         == DfDrop(pred_input_df, drop_cols)
       IN  IF ~CanDrop(pred_input_df, drop_cols)
           THEN /\ ppc' = "error" /\ perr' = "KeyError"
                /\ UNCHANGED <<model_out, pred_features, pred_arr>>
           ELSE IF Len(x.rows) = 0
           THEN /\ ppc' = "error" /\ perr' = "ValueError"
                /\ pred_features' = x.cols
                /\ UNCHANGED <<model_out, pred_arr>>
           ELSE \E out \in PredictOutputs(Len(x.rows)) :
                  /\ model_out' = out
                  /\ pred_features' = x.cols
                  /\ pred_arr' = IF ~pargs.only_pred THEN RestoreNoData(out, nan_pos_dict)
                                 ELSE out
                  /\ ppc' = "predicted"
                  /\ UNCHANGED perr
    /\ UNCHANGED <<pred_dir, pred_nan, pargs, raster_arr_dict, nan_pos_dict, pred_input_df,
                   actual_values, pred_values, stats_called, out_raster>>
    /\ UNCHANGED <<OthersPred, loopvars>>

\* lines 436-452: prediction and the vectors for the error metrics
Evaluate ==
    /\ ppc = "tabled"
    /\ pargs.calculate_errors
    /\ LET drop_columns == <<VarGW>> \o pargs.drop_attrs
           has_actual   == IF pargs.only_pred THEN HasCol(pred_input_df, VarGW)
                           ELSE VarGW \in Range(raster_arr_dict.keys)
           actual_arr   == IF pargs.only_pred THEN Column(pred_input_df, VarGW)
                           ELSE raster_arr_dict.vals[VarGW]
           x            == DfDrop(pred_input_df, drop_columns)
       IN  IF ~has_actual \/ ~CanDrop(pred_input_df, drop_columns)
           THEN /\ ppc' = "error" /\ perr' = "KeyError"
                /\ UNCHANGED <<model_out, pred_features, pred_arr, actual_values,
                               pred_values, stats_called>>
           ELSE IF Len(x.rows) = 0
           THEN /\ ppc' = "error" /\ perr' = "ValueError"
                /\ pred_features' = x.cols
                /\ UNCHANGED <<model_out, pred_arr, actual_values, pred_values,
                               stats_called>>
           ELSE \E out \in PredictOutputs(Len(x.rows)) :
                  LET restored == IF ~pargs.only_pred THEN RestoreNoData(out, nan_pos_dict)
                                  ELSE out
                  IN  /\ model_out' = out
                      /\ pred_features' = x.cols
                      /\ pred_arr' = restored
                      /\ actual_values' =
                            IF ~pargs.only_pred
                            THEN DropNoData(RestoreNoData(actual_arr, nan_pos_dict))
                            ELSE actual_arr
                      /\ pred_values' = IF ~pargs.only_pred THEN DropNoData(restored)
                                        ELSE restored
                      /\ stats_called' = TRUE
                      /\ ppc' = "predicted"
                      /\ UNCHANGED perr
    /\ UNCHANGED <<pred_dir, pred_nan, pargs, raster_arr_dict, nan_pos_dict, pred_input_df,
                   out_raster>>
    /\ UNCHANGED <<OthersPred, loopvars>>

\* lines 453-456: the prediction raster is written unless only_pred, return
WriteRaster ==
    /\ ppc = "predicted"
    /\ out_raster' = IF ~pargs.only_pred THEN Reshape2D(pred_arr) ELSE out_raster
    /\ ppc' = "done"
    /\ UNCHANGED <<pred_dir, pred_nan, pargs, perr, raster_arr_dict, nan_pos_dict,
                   pred_input_df, model_out, pred_features, pred_arr, actual_values,
                   pred_values, stats_called>>
    /\ UNCHANGED <<OthersPred, loopvars>>

NextPred == ReadRasters \/ PredictOnly \/ Evaluate \/ WriteRaster

(***************************************************************************)
(* predict_rasters: one create_pred_raster call per prediction year.       *)
(***************************************************************************)
\* str(n) of a natural number
RECURSIVE StrOf(_)
StrOf(n) ==
    LET digit == CHOOSE c \in Digits : DigitVal(c) = n % 10
    IN  IF n < 10 THEN <<digit>> ELSE Append(StrOf(n \div 10), digit)

\* line 478: out_dir + 'pred_' + str(pred_year) + '.tif'
OutPredRaster(pred_year) ==
    Dir \o <<"p", "r", "e", "d", "_">> \o StrOf(pred_year) \o Tif

\* a flag that is never switched off
CalculateErrors_Always(pred_year, exclude_years) == TRUE

\* lines 479-481: error metrics unless the year is excluded from error analysis
CalculateErrors(pred_year, exclude_years) == pred_year \notin exclude_years

PredYears == {2015, 2016}

RECURSIVE SeqsUpTo(_, _)
SeqsUpTo(S, n) ==
    IF n = 0 THEN {<<>>}
    ELSE LET shorter == SeqsUpTo(S, n - 1)
         IN  shorter \cup {Append(q, x) : q \in shorter, x \in S}

PredYearsChoices       == SeqsUpTo(PredYears, MaxPredYears) \ {<<>>}
LoopExcludeYearsChoices == {{2019}, {2016}}

InitLoop ==
    /\ pred_dir \in {D \in SUBSET Range(PredUniverse) : Cardinality(D) <= MaxPredFiles}
    /\ pred_nan \in PredNanChoices
    /\ pargs = <<>> /\ ppc = "idle" /\ perr = ""
    /\ raster_arr_dict = EmptyDict /\ nan_pos_dict = EmptyDict /\ pred_input_df = EmptyDF
    /\ model_out = <<>> /\ pred_features = <<>> /\ pred_arr = <<>>
    /\ actual_values = <<>> /\ pred_values = <<>> /\ stats_called = FALSE
    /\ out_raster = <<>>
    /\ pr_args \in [pred_years : PredYearsChoices, exclude_years : LoopExcludeYearsChoices,
                    only_pred : BOOLEAN, column_names : {<<>>}, drop_attrs : {<<>>},
                    exclude_vars : {{}}, ordering : {FALSE}]
    /\ pr_pc = "loop"
    /\ pr_i = 1
    /\ pr_calls = <<>>
    /\ pr_files = EmptyDict
    /\ IdleDF /\ IdleAttr /\ IdleRatio /\ IdleRF /\ IdleFan /\ IdleKw

\* lines 477-491: the next year of pred_years, its flag and its call
CallCreatePredRaster ==
    /\ pr_pc = "loop"
    /\ pr_i <= Len(pr_args.pred_years)
    /\ LET pred_year        == pr_args.pred_years[pr_i]
           calculate_errors == CalculateErrors(pred_year, pr_args.exclude_years)
       IN  /\ pargs' = [exclude_vars |-> pr_args.exclude_vars,
                        column_names |-> pr_args.column_names,
                        drop_attrs |-> pr_args.drop_attrs,
                        only_pred |-> pr_args.only_pred,
                        calculate_errors |-> calculate_errors,
                        ordering |-> pr_args.ordering,
                        pred_year |-> StrOf(pred_year)]
           /\ pr_calls' = Append(pr_calls, [pred_year |-> pred_year,
                                            calculate_errors |-> calculate_errors,
                                            out_raster |-> OutPredRaster(pred_year)])
    /\ ppc' = "start" /\ perr' = ""
    /\ raster_arr_dict' = EmptyDict /\ nan_pos_dict' = EmptyDict
    /\ pred_input_df' = EmptyDF
    /\ model_out' = <<>> /\ pred_features' = <<>> /\ pred_arr' = <<>>
    /\ actual_values' = <<>> /\ pred_values' = <<>> /\ stats_called' = FALSE
    /\ out_raster' = <<>>
    /\ pr_pc' = "call"
    /\ UNCHANGED <<pred_dir, pred_nan, pr_args, pr_i, pr_files>>
    /\ UNCHANGED OthersPred

\* lines 482, 492-493: the call returns, or its exception ends predict_rasters
ReturnFromCall ==
    /\ pr_pc = "call"
    /\ ppc \in {"done", "error"}
    /\ IF ppc = "done"
       THEN /\ pr_files' = IF out_raster /= <<>>
                           THEN DictSet(pr_files, pr_calls[Len(pr_calls)].out_raster,
                                        out_raster)
                           ELSE pr_files
            /\ pr_i' = pr_i + 1
            /\ pr_pc' = "loop"
       ELSE /\ pr_pc' = "error"
            /\ UNCHANGED <<pr_files, pr_i>>
    /\ ppc' = "idle"
    /\ UNCHANGED <<pred_dir, pred_nan, pargs, perr, raster_arr_dict, nan_pos_dict,
                   pred_input_df, model_out, pred_features, pred_arr, actual_values,
                   pred_values, stats_called, out_raster>>
    /\ UNCHANGED <<pr_args, pr_calls>>
    /\ UNCHANGED OthersPred

\* line 477: pred_years is exhausted
LoopEnd ==
    /\ pr_pc = "loop"
    /\ pr_i > Len(pr_args.pred_years)
    /\ pr_pc' = "done"
    /\ UNCHANGED <<predvars, pr_args, pr_i, pr_calls, pr_files>>
    /\ UNCHANGED OthersPred

NextLoop ==
    \/ CallCreatePredRaster \/ ReadRasters \/ PredictOnly \/ Evaluate \/ WriteRaster
    \/ ReturnFromCall \/ LoopEnd

(***************************************************************************)
(* rf_regressor: runs on one output directory.                             *)
(***************************************************************************)
\* split_data_attribute(d, ...) as one call: every result the iteration order
\* of the set of partition values allows, with the files it leaves in outdir
AttributeResults(d, a) ==
    LET label     == IF a.use_gws THEN ColGW_NAME ELSE ColYEAR
        test_vars == IF a.use_gws
                     THEN [i \in 1..Len(a.test_gws) |-> Str(a.test_gws[i])]
                     ELSE [i \in 1..Len(a.test_years) |-> Num(a.test_years[i])]
        Finished(st) ==
            LET c == IF a.spatio_temporal /\ a.use_gws
                     THEN CarveLoop([train |-> st.train, test |-> st.test, err |-> ""],
                                    a.test_years)
                     ELSE [train |-> st.train, test |-> st.test, err |-> ""]
                failed == c.err /= "" \/ ~HasCol(c.train, VarGW) \/ ~HasCol(c.test, VarGW)
                xs_tr == IF a.shuffle THEN ShuffleFeatures(c.train, a.random_state)
                         ELSE c.train
                xs_te == IF a.shuffle THEN ShuffleFeatures(c.test, a.random_state)
                         ELSE c.test
                ys_tr == IF a.shuffle
                         THEN ShuffleTargets(Column(c.train, VarGW), a.random_state)
                         ELSE Column(c.train, VarGW)
                ys_te == IF a.shuffle
                         THEN ShuffleTargets(Column(c.test, VarGW), a.random_state)
                         ELSE Column(c.test, VarGW)
            IN  IF failed
                THEN [x_train |-> EmptyDF, x_test |-> EmptyDF, y_train |-> <<>>,
                      y_test |-> <<>>, err |-> "KeyError", files |-> <<>>]
                ELSE [x_train |-> xs_tr, x_test |-> xs_te, y_train |-> ys_tr,
                      y_test |-> ys_te, err |-> "",
                      files |-> IF a.outdir
                                THEN [X_Train |-> xs_tr, X_Test |-> xs_te,
                                      Y_Train |-> ys_tr, Y_Test |-> ys_te]
                                ELSE <<>>]
    IN  {Finished(AttributeLoop(d, label, order, test_vars)) :
            order \in Orders(ColumnSet(d, label))}

\* a field of a csv file: empty for a missing value, else the printed value
CsvField(x) == IF IsNA(x) THEN <<>> ELSE <<x>>

\* read_csv on a field: an empty field is NaN, else the value is parsed back
ReadCsvField(f) == IF f = <<>> THEN NaN ELSE f[1]

\* df.to_csv(path, index=False)
ToCsv(d) ==
    [cols |-> d.cols,
     rows |-> [i \in 1..Len(d.rows) |-> [c \in Range(d.cols) |-> CsvField(d.rows[i][c])]]]

\* the csv file of a target vector: one column under the header 'name'
TargetToCsv(y, name) ==
    [cols |-> <<name>>, rows |-> [i \in 1..Len(y) |-> [c \in {name} |-> CsvField(y[i])]]]

\* pd.read_csv(path)
ReadCsv(file) ==
    [cols |-> file.cols,
     rows |-> [i \in 1..Len(file.rows) |->
                  [c \in Range(file.cols) |-> ReadCsvField(file.rows[i][c])]]]

\* the four files a split leaves in out_dir; the targets of the ratio split
\* are written under the header '0', those of the attribute split under
\* pred_attr
SplitFiles(files, split_attribute) ==
    LET name == IF split_attribute THEN VarGW ELSE <<"0">>
    IN  [X_Train |-> ToCsv(files.X_Train), X_Test |-> ToCsv(files.X_Test),
         Y_Train |-> TargetToCsv(files.Y_Train, name),
         Y_Test  |-> TargetToCsv(files.Y_Test, name)]

\* out_dir with no file in it; model and split are <<>> while the file(s) are
\* not there, results is the sequence of lines of RF_Results.csv
EmptyRFDir == [model |-> <<>>, split |-> <<>>, results |-> <<>>]

\* a fitted regressor: what it was fitted on
Fitted(x_train, y_train, random_state) ==
    [x |-> x_train, y |-> y_train, random_state |-> random_state]

\* out_dir with a model left by an earlier session and no split files
StaleRFDir == [EmptyRFDir EXCEPT !.model = Fitted(EmptyDF, <<>>, 7)]

\* line 307: glob(out_dir + '*rf_model*'), out_dir holding at most the file
\* rf_model the runs write
SavedModel(dir) == IF dir.model = <<>> THEN <<>> ELSE <<"rf_model">>

\* a test that looks at the file only
UseSaved_IgnoreFlag(load_model, saved_model) == saved_model /= <<>>

\* line 308: if load_model and saved_model
UseSaved(load_model, saved_model) == load_model /\ saved_model /= <<>>

\* the header line of RF_Results.csv
ResultsHeader == [line |-> "header"]

\* an append that writes the header every time
AppendResults_AlwaysHeader(lines, test_case) ==
    lines \o <<ResultsHeader, [line |-> "row", Test |-> test_case]>>

\* lines 377-379: the one-row table is appended, under a header if the file
\* is empty (f.tell() == 0 right after open(..., 'a'))
AppendResults(lines, test_case) ==
    LET row == [line |-> "row", Test |-> test_case]
    IN  IF Len(lines) = 0 THEN <<ResultsHeader, row>> ELSE Append(lines, row)

\* the arguments of one call; test_year is the tuple (2016,) for the attribute
\* split and None for the ratio split
RFRunChoices ==
    {[load_model |-> l, split_attribute |-> sa, test_case |-> tc, random_state |-> rs] :
        l \in BOOLEAN, sa \in BOOLEAN, tc \in {"T1", "T2"}, rs \in {0, 1}}

\* the arguments rf_regressor hands to the two splits (lines 319-328)
RatioArgsOf(a) ==
    [use_gw |-> FALSE, test_year |-> None, test_gw |-> None, shuffle |-> TRUE,
     random_state |-> a.random_state, test_size |-> <<1, 2>>, outdir |-> TRUE]

AttrArgsOf(a) ==
    [use_gws |-> FALSE, test_years |-> <<2016>>, test_gws |-> <<>>,
     spatio_temporal |-> FALSE, shuffle |-> TRUE, random_state |-> a.random_state,
     outdir |-> TRUE]

InitRF ==
    /\ rf_input \in InputTables(MaxRFRows)
    /\ rf_dir \in {EmptyRFDir, StaleRFDir}
    /\ rf_args = <<>>
    /\ rf_pc = "idle"
    /\ rf_cur = <<>>
    /\ rf_log = <<>>
    /\ IdleDF /\ IdleAttr /\ IdleRatio /\ IdlePred /\ IdleLoop /\ IdleFan /\ IdleKw

\* the record a run leaves in rf_log
RunRecord(a, cur, completed, dir_after) ==
    [load_model |-> a.load_model, test_case |-> a.test_case, saved |-> cur.saved,
     fit |-> cur.fit, resplit |-> cur.resplit, completed |-> completed,
     regressor |-> cur.regressor, x_train |-> cur.x_train, x_test |-> cur.x_test,
     dir_before |-> cur.dir_before, dir_after |-> dir_after]

\* line 307: a run begins and looks for a saved model
BeginRun ==
    /\ rf_pc = "idle"
    /\ Len(rf_log) < MaxRuns
    /\ rf_args' \in RFRunChoices
    /\ rf_cur' = [saved |-> SavedModel(rf_dir) /= <<>>, dir_before |-> rf_dir,
                  fit |-> FALSE, resplit |-> FALSE, regressor |-> <<>>,
                  x_train |-> EmptyDF, x_test |-> EmptyDF]
    /\ rf_pc' = "begun"
    /\ UNCHANGED <<rf_input, rf_dir, rf_log>>
    /\ UNCHANGED OthersRF

\* lines 308-316: the saved model and the saved split are loaded
LoadSaved ==
    /\ rf_pc = "begun"
    /\ UseSaved(rf_args.load_model, SavedModel(rf_dir))
    /\ LET drop_columns == <<VarGW>>
           readable == /\ rf_dir.split /= <<>>
                       /\ \A f \in {"X_Train", "Y_Train", "X_Test", "Y_Test"} :
                             Len(rf_dir.split[f].cols) > 0
           x_tr == ReadCsv(rf_dir.split.X_Train)
           x_te == ReadCsv(rf_dir.split.X_Test)
           cur  == [rf_cur EXCEPT !.regressor = rf_dir.model]
       IN  IF ~readable \/ ~CanDrop(x_tr, drop_columns) \/ ~CanDrop(x_te, drop_columns)
           THEN /\ rf_log' = Append(rf_log, RunRecord(rf_args, cur, FALSE, rf_dir))
                /\ rf_pc' = "idle"
                /\ UNCHANGED rf_cur
           ELSE /\ rf_cur' = [cur EXCEPT !.x_train = DfDrop(x_tr, drop_columns),
                                         !.x_test = DfDrop(x_te, drop_columns)]
                /\ rf_pc' = "ready"
                /\ UNCHANGED rf_log
    /\ UNCHANGED <<rf_input, rf_dir, rf_args>>
    /\ UNCHANGED OthersRF

\* lines 317-351: the table is split, the split files are written, a model is
\* fitted and pickled
TrainNew ==
    /\ rf_pc = "begun"
    /\ ~UseSaved(rf_args.load_model, SavedModel(rf_dir))
    /\ \E sp \in IF ~rf_args.split_attribute
                 THEN RatioResults(rf_input, RatioArgsOf(rf_args))
                 ELSE AttributeResults(rf_input, AttrArgsOf(rf_args)) :
          LET drop_columns == <<VarGW>>
              dir1 == IF sp.files = <<>> THEN rf_dir
                      ELSE [rf_dir EXCEPT
                              !.split = SplitFiles(sp.files, rf_args.split_attribute)]
              cur1 == [rf_cur EXCEPT !.resplit = TRUE]
              ok   == /\ sp.err = ""
                      /\ CanDrop(sp.x_train, drop_columns)
                      /\ CanDrop(sp.x_test, drop_columns)
                      /\ Len(sp.x_train.rows) > 0
              x_tr == DfDrop(sp.x_train, drop_columns)
              reg  == Fitted(x_tr, sp.y_train, rf_args.random_state)
          IN  IF ~ok
              THEN /\ rf_dir' = dir1
                   /\ rf_log' = Append(rf_log, RunRecord(rf_args, cur1, FALSE, dir1))
                   /\ rf_pc' = "idle"
                   /\ UNCHANGED rf_cur
              ELSE /\ rf_dir' = [dir1 EXCEPT !.model = reg]
                   /\ rf_cur' = [cur1 EXCEPT !.fit = TRUE, !.regressor = reg,
                                             !.x_train = x_tr,
                                             !.x_test = DfDrop(sp.x_test, drop_columns)]
                   /\ rf_pc' = "ready"
                   /\ UNCHANGED rf_log
    /\ UNCHANGED <<rf_input, rf_args>>
    /\ UNCHANGED OthersRF

\* lines 355-382: predictions, statistics, one row more in RF_Results.csv
PredictAndLog ==
    /\ rf_pc = "ready"
    /\ IF Len(rf_cur.x_train.rows) = 0 \/ Len(rf_cur.x_test.rows) = 0
       THEN /\ rf_log' = Append(rf_log, RunRecord(rf_args, rf_cur, FALSE, rf_dir))
            /\ UNCHANGED rf_dir
       ELSE LET dir1 == [rf_dir EXCEPT
                           !.results = AppendResults(rf_dir.results, rf_args.test_case)]
            IN  /\ rf_dir' = dir1
                /\ rf_log' = Append(rf_log, RunRecord(rf_args, rf_cur, TRUE, dir1))
    /\ rf_pc' = "idle"
    /\ UNCHANGED <<rf_input, rf_args, rf_cur>>
    /\ UNCHANGED OthersRF

NextRF == BeginRun \/ LoadSaved \/ TrainNew \/ PredictAndLog

(***************************************************************************)
(* The parallel fan-outs of vectorops.py: clip_vectors, shps2rasters,      *)
(* add_attribute_well_reg_multiple and extract_gdb_data hand one task per  *)
(* input to joblib workers; every worker computes its output path from its *)
(* own input and writes it.                                                *)
(***************************************************************************)
MaxFanFiles == 3
MaxYearList == 3

Sep == "/"

InDir  == <<"i", "/">>
OutDir == <<"o", "/">>

Shp == <<".", "s", "h", "p">>
Csv == <<".", "c", "s", "v">>

\* the stems a directory's files may have; one of them holds a dot
StemUniverse == {<<"a">>, <<"b">>, <<"a", ".", "b">>}

\* glob(dir + '*' + ext): the matching files of the directory, in some order
GlobOrders(ext) ==
    UNION {Orders({InDir \o stem \o ext : stem \in stems}) :
              stems \in {S \in SUBSET StemUniverse : S /= {} /\ Cardinality(S) <= MaxFanFiles}}

\* multiprocessing.cpu_count()
CpuCounts == {1, 2, 4}

\* the year lists handed to extract_gdb_data
YearLists == {ys \in SeqsUpTo(PredYears, MaxYearList) : Len(ys) >= 1}

\* lines 83, 202-204, 345, 395: the n_jobs each fan-out asks for
NJobs(fn, cpu_count) ==
    CASE fn = "clip_vectors" -> cpu_count
      [] fn = "add_attribute_well_reg_multiple" -> (cpu_count - 1) - 1
      [] fn = "shps2rasters" -> cpu_count - 2
      [] fn = "extract_gdb_data" -> cpu_count

\* joblib: n_jobs = 0 is refused, a negative n_jobs counts back from the
\* number of processors (-1 is all of them), at least one worker
Workers(n_jobs, cpu_count) ==
    IF n_jobs < 0
    THEN (IF cpu_count + 1 + n_jobs < 1 THEN 1 ELSE cpu_count + 1 + n_jobs)
    ELSE n_jobs

\* line 101: outdir + shp_file[shp_file.rfind(os.sep) + 1:]
ClipOutPath(outdir, shp_file) ==
    outdir \o Slice(shp_file, RFind(shp_file, Sep) + 1, Len(shp_file))

\* lines 231-232: out_gw_shp_dir + csv[csv.rfind(os.sep) + 1: csv.rfind('.')] + '.shp'
WellRegOutPath(out_gw_shp_dir, input_gw_csv_file) ==
    out_gw_shp_dir
        \o Slice(input_gw_csv_file, RFind(input_gw_csv_file, Sep) + 1,
                 RFind(input_gw_csv_file, "."))
        \o Shp

\* line 372: output_dir + shp_file[shp_file.rfind(os.sep) + 1: shp_file.rfind('.') + 1] + 'tif'
RasterOutPath(output_dir, shp_file) ==
    output_dir
        \o Slice(shp_file, RFind(shp_file, Sep) + 1, RFind(shp_file, ".") + 1)
        \o <<"t", "i", "f">>

\* lines 419-426: outdir + shp_file_prefix + '_' + str(year_list[index]) and
\* '.shp' or '.csv'; index is 0-based
GdbOutPath(outdir, shp_file_prefix, year_list, index, shpfile) ==
    outdir \o shp_file_prefix \o <<"_">> \o StrOf(year_list[index + 1])
           \o (IF shpfile THEN Shp ELSE Csv)

\* the fan-outs and their inputs: items is what the generator handed to
\* Parallel yields, in order
FanCalls ==
    {[fn |-> fn, items |-> items, shpfile |-> TRUE, cpu_count |-> c, refused |-> FALSE] :
        fn \in {"clip_vectors", "shps2rasters"}, items \in GlobOrders(Shp), c \in CpuCounts}
    \cup
    {[fn |-> "add_attribute_well_reg_multiple", items |-> items, shpfile |-> TRUE,
      cpu_count |-> c, refused |-> FALSE] :
        items \in GlobOrders(Csv), c \in CpuCounts}
    \cup
    {[fn |-> "extract_gdb_data", items |-> [k \in 1..Len(ys) |-> StrOf(ys[k])],
      shpfile |-> b, cpu_count |-> c, refused |-> FALSE] :
        ys \in YearLists, b \in BOOLEAN, c \in CpuCounts}

\* the years of an extract_gdb_data call, as the integers of year_list
YearListOf(call) == [k \in 1..Len(call.items) |-> IntOf(call.items[k])]

\* the path the worker of task k (1-based position in items) writes
OutPath(call, k) ==
    CASE call.fn = "clip_vectors" -> ClipOutPath(OutDir, call.items[k])
      [] call.fn = "add_attribute_well_reg_multiple" -> WellRegOutPath(OutDir, call.items[k])
      [] call.fn = "shps2rasters" -> RasterOutPath(OutDir, call.items[k])
      [] call.fn = "extract_gdb_data" ->
            GdbOutPath(OutDir, VarGW, YearListOf(call), k - 1, call.shpfile)

InitFan ==
    /\ fan_call \in FanCalls
    /\ fan_pending = [k \in 1..Len(fan_call.items) |-> k]
    /\ fan_writing = {}
    /\ fan_written = <<>>
    /\ fan_raced = FALSE
    /\ IdleDF /\ IdleAttr /\ IdleRatio /\ IdlePred /\ IdleLoop /\ IdleRF /\ IdleKw

\* Parallel(n_jobs=0) raises before any task runs
FanRefused ==
    /\ fan_call /= <<>> /\ ~fan_call.refused
    /\ NJobs(fan_call.fn, fan_call.cpu_count) = 0
    /\ fan_pending /= <<>>
    /\ fan_call' = [fan_call EXCEPT !.refused = TRUE]
    /\ fan_pending' = <<>>
    /\ UNCHANGED <<fan_writing, fan_written, fan_raced>>
    /\ UNCHANGED OthersFan

\* a free worker takes the next task and begins to write its output file
WorkerStart ==
    /\ fan_call /= <<>> /\ fan_pending /= <<>>
    /\ NJobs(fan_call.fn, fan_call.cpu_count) /= 0
    /\ Cardinality(fan_writing) < Workers(NJobs(fan_call.fn, fan_call.cpu_count),
                                          fan_call.cpu_count)
    /\ LET k == Head(fan_pending)
       IN  /\ fan_pending' = Tail(fan_pending)
           /\ fan_writing' = fan_writing \cup {k}
           /\ fan_raced' = (fan_raced \/ \E j \in fan_writing :
                                            OutPath(fan_call, j) = OutPath(fan_call, k))
    /\ UNCHANGED <<fan_call, fan_written>>
    /\ UNCHANGED OthersFan

\* a worker completes its write
WorkerFinish ==
    /\ fan_call /= <<>>
    /\ \E k \in fan_writing :
          /\ fan_writing' = fan_writing \ {k}
          /\ fan_written' = Append(fan_written, [task |-> k, path |-> OutPath(fan_call, k)])
    /\ UNCHANGED <<fan_call, fan_pending, fan_raced>>
    /\ UNCHANGED OthersFan

NextFan == FanRefused \/ WorkerStart \/ WorkerFinish

(***************************************************************************)
(* add_attribute_well_reg of vectorops.py: the id settings are read from   *)
(* **kwargs, the registry is filtered, the fill attribute is summed per    *)
(* well from the csv rows that match, and the shapefile is written.        *)
(***************************************************************************)
KwKeys == {"csv_well_id", "csv_mov_id", "csv_water_id", "movement_type", "water_type",
           "shp_well_id"}

\* lines 148-153: the defaults of the six settings
KwDefaults ==
    [csv_well_id |-> "Well Id", csv_mov_id |-> "Movement Type",
     csv_water_id |-> "Water Type", movement_type |-> "WITHDRAWAL",
     water_type |-> "GROUNDWATER", shp_well_id |-> "REGISTRY_I"]

\* the values a caller working with other files passes
KwCustom ==
    [csv_well_id |-> "ID", csv_mov_id |-> "MOV", csv_water_id |-> "WAT",
     movement_type |-> "INJECTION", water_type |-> "SURFACE", shp_well_id |-> "REG_ID"]

\* kwargs: any subset of the settings, each passed with the caller's value
KwargsChoices == {{<<k, KwCustom[k]>> : k \in K} : K \in SUBSET KwKeys}

\* key in kwargs
KwHas(kwargs, key) == \E kv \in kwargs : kv[1] = key

\* kwargs[key]
KwGet(kwargs, key) == (CHOOSE kv \in kwargs : kv[1] = key)[2]

\* lines 155-158: the keys read from kwargs, in order
KwRead == <<"csv_well_id", "movement_type", "water_type", "shp_well_id">>

\* lines 148-158: the settings in force, or the KeyError of the first key
\* that a non-empty kwargs lacks
ReadKwargs(kwargs) ==
    IF kwargs = {} THEN [err |-> <<>>, ids |-> KwDefaults]
    ELSE LET missing == {i \in 1..Len(KwRead) : ~KwHas(kwargs, KwRead[i])}
             first   == CHOOSE i \in missing : \A j \in missing : i <= j
             upto    == IF missing = {} THEN Len(KwRead) ELSE first - 1
             ids     == [k \in KwKeys |->
                            IF \E i \in 1..upto : KwRead[i] = k
                            THEN KwGet(kwargs, k) ELSE KwDefaults[k]]
         IN  [err |-> IF missing = {} THEN <<>> ELSE <<"KeyError", KwRead[first]>>,
              ids |-> ids]

OutsideAMA == "OUTSIDE OF AMA OR INA"

\* 1e-10 and -1e-16, the values written for a zero fill and outside the AMAs
Tiny    == [t |-> "tiny", v |-> 10]
NegTiny == [t |-> "tiny", v |-> 0 - 16]

\* the rows of the csv file: two withdrawals of one well, a zero withdrawal
\* of another and an injection of surface water
GwCsvRows ==
    << [well |-> 12512,  mov |-> "WITHDRAWAL", water |-> "GROUNDWATER", fill |-> 5],
       [well |-> 12512,  mov |-> "WITHDRAWAL", water |-> "GROUNDWATER", fill |-> 7],
       [well |-> 612512, mov |-> "WITHDRAWAL", water |-> "GROUNDWATER", fill |-> 0],
       [well |-> 255,    mov |-> "INJECTION",  water |-> "SURFACE",     fill |-> 2] >>

\* the wells of the registry
WellRegRows ==
    << [id |-> <<"0", "1", "2", "5", "1", "2">>, ama |-> "PHOENIX"],
       [id |-> <<"6", "1", "2", "5", "1", "2">>, ama |-> "TUCSON"],
       [id |-> <<"2", "5", "5">>,                ama |-> "PHOENIX"],
       [id |-> <<"5", "5">>,                     ama |-> OutsideAMA] >>

\* the two files: each id column is named as the default says or as the
\* caller's value says
KwFilesChoices ==
    {[csv_cols |-> [well |-> w.csv_well_id, mov |-> m.csv_mov_id, water |-> a.csv_water_id],
      csv_rows |-> SubSeq(GwCsvRows, 1, n),
      shp_id   |-> h.shp_well_id] :
        w \in {KwDefaults, KwCustom}, m \in {KwDefaults, KwCustom},
        a \in {KwDefaults, KwCustom}, h \in {KwDefaults, KwCustom},
        n \in 1..Len(GwCsvRows)}

\* gw_df[name]: the column of the csv under that name, "" if there is none
CsvColumn(files, name) ==
    CASE name = files.csv_cols.well  -> "well"
      [] name = files.csv_cols.mov   -> "mov"
      [] name = files.csv_cols.water -> "water"
      [] OTHER -> ""

RECURSIVE SumFill(_)
SumFill(rows) == IF Len(rows) = 0 THEN 0 ELSE rows[1].fill + SumFill(Tail(rows))

\* lines 169-171: str(csv_id), with a leading '0' when it has five characters
ModifiedId(csv_id) ==
    IF Len(StrOf(csv_id)) = 5 THEN <<"0">> \o StrOf(csv_id) ELSE StrOf(csv_id)

InitKw ==
    /\ kw_kwargs \in KwargsChoices
    /\ kw_files \in KwFilesChoices
    /\ kw_use_only \in BOOLEAN
    /\ kw_ids = <<>>
    /\ kw_pc = "start"
    /\ kw_err = <<>>
    /\ kw_gdf = <<>>
    /\ kw_out = <<>>
    /\ IdleDF /\ IdleAttr /\ IdleRatio /\ IdlePred /\ IdleLoop /\ IdleRF /\ IdleFan

\* lines 146-158: the files are read and the settings taken from kwargs
ReadIds ==
    /\ kw_pc = "start"
    /\ LET r == ReadKwargs(kw_kwargs)
       IN  /\ kw_ids' = r.ids
           /\ kw_err' = r.err
           /\ kw_pc' = IF r.err = <<>> THEN "ids" ELSE "error"
    /\ kw_gdf' = [has_fill |-> FALSE,
                  rows |-> [i \in 1..Len(WellRegRows) |->
                               [id |-> WellRegRows[i].id, ama |-> WellRegRows[i].ama,
                                fill |-> NaN]]]
    /\ UNCHANGED <<kw_kwargs, kw_files, kw_use_only, kw_out>>
    /\ UNCHANGED OthersKw

\* lines 159-172: the wells outside the AMAs are removed and every well of
\* the csv with matching rows gets the sum of their fill values
FilterAndFill ==
    /\ kw_pc = "ids"
    /\ LET kept     == SelectSeq(kw_gdf.rows, LAMBDA w : w.ama /= OutsideAMA)
           wellc    == CsvColumn(kw_files, kw_ids.csv_well_id)
           movc     == CsvColumn(kw_files, kw_ids.csv_mov_id)
           waterc   == CsvColumn(kw_files, kw_ids.csv_water_id)
           rows     == kw_files.csv_rows
           sub(cid) == SelectSeq(rows, LAMBDA r : /\ r.well = cid
                                                  /\ r.mov = kw_ids.movement_type
                                                  /\ r.water = kw_ids.water_type)
           matched  == {rows[i].well : i \in 1..Len(rows)}
           filling  == {cid \in matched : Len(sub(cid)) > 0}
           fillOf(w) == IF \E cid \in filling : ModifiedId(cid) = w.id
                        THEN Num(SumFill(sub(CHOOSE cid \in filling : ModifiedId(cid) = w.id)))
                        ELSE w.fill
       IN  IF wellc /= "well"
           THEN /\ kw_pc' = "error" /\ kw_err' = <<"KeyError", kw_ids.csv_well_id>>
                /\ kw_gdf' = [kw_gdf EXCEPT !.rows = kept]
           ELSE IF movc /= "mov"
           THEN /\ kw_pc' = "error" /\ kw_err' = <<"KeyError", kw_ids.csv_mov_id>>
                /\ kw_gdf' = [kw_gdf EXCEPT !.rows = kept]
           ELSE IF waterc /= "water"
           THEN /\ kw_pc' = "error" /\ kw_err' = <<"KeyError", kw_ids.csv_water_id>>
                /\ kw_gdf' = [kw_gdf EXCEPT !.rows = kept]
           ELSE IF filling /= {} /\ kw_ids.shp_well_id /= kw_files.shp_id
           THEN /\ kw_pc' = "error" /\ kw_err' = <<"KeyError", kw_ids.shp_well_id>>
                /\ kw_gdf' = [kw_gdf EXCEPT !.rows = kept]
           ELSE /\ kw_pc' = "filled" /\ kw_err' = <<>>
                /\ kw_gdf' = [has_fill |-> \E w \in Range(kept) :
                                              \E cid \in filling : ModifiedId(cid) = w.id,
                              rows |-> [i \in 1..Len(kept) |->
                                           [kept[i] EXCEPT !.fill = fillOf(kept[i])]]]
    /\ UNCHANGED <<kw_kwargs, kw_files, kw_use_only, kw_ids, kw_out>>
    /\ UNCHANGED OthersKw

\* lines 173-181: the zero fills are replaced, the shapefile is written and
\* the matched wells are counted under shp_well_id
WriteWellReg ==
    /\ kw_pc = "filled"
    /\ LET fixed == [i \in 1..Len(kw_gdf.rows) |->
                        LET w == kw_gdf.rows[i]
                        IN  IF w.ama = OutsideAMA THEN [w EXCEPT !.fill = NegTiny]
                            ELSE IF w.fill = Num(0) THEN [w EXCEPT !.fill = Tiny]
                            ELSE w]
           out   == IF kw_use_only THEN kw_gdf
                    ELSE [has_fill |-> TRUE, rows |-> fixed]
       IN  /\ kw_gdf' = out
           /\ kw_out' = out
           /\ IF kw_ids.shp_well_id /= kw_files.shp_id
              THEN kw_pc' = "error" /\ kw_err' = <<"KeyError", kw_ids.shp_well_id>>
              ELSE kw_pc' = "done" /\ kw_err' = <<>>
    /\ UNCHANGED <<kw_kwargs, kw_files, kw_use_only, kw_ids>>
    /\ UNCHANGED OthersKw

NextKw == ReadIds \/ FilterAndFill \/ WriteWellReg

(***************************************************************************)
(* Specifications: one per operation; the state of the other operations    *)
(* stays idle.                                                             *)
(***************************************************************************)
\* create_dataframe
SpecDF == InitDF /\ [][NextDF]_vars

\* split_data_attribute
SpecAttr == InitAttr /\ [][NextAttr]_vars

\* split_data_train_test_ratio
SpecRatio == InitRatio /\ [][NextRatio]_vars

\* create_pred_raster
SpecPred == InitPred /\ [][NextPred]_vars

\* predict_rasters
SpecLoop == InitLoop /\ [][NextLoop]_vars

\* rf_regressor
SpecRF == InitRF /\ [][NextRF]_vars

\* the fan-outs of vectorops.py
SpecFan == InitFan /\ [][NextFan]_vars

\* add_attribute_well_reg
SpecKw == InitKw /\ [][NextKw]_vars

Init == InitDF \/ InitAttr \/ InitRatio \/ InitPred \/ InitLoop \/ InitRF \/ InitFan \/ InitKw

Next == NextDF \/ NextAttr \/ NextRatio \/ NextPred \/ NextLoop \/ NextRF \/ NextFan \/ NextKw

Spec == Init /\ [][Next]_vars

(***************************************************************************)
(* Claims about create_dataframe (SpecDF).                                 *)
(***************************************************************************)
\* what each file of FileUniverse is named after: its variable and its year
\* (0 for the file whose year text is no integer)
NamedVariable == <<VarET, VarP, VarET, VarP, VarWS_PA, VarSW>>
NamedYear     == <<2015, 2015, 2016, 2016, 2016, 0>>

\* the year -> set of files grouping of a mapping
Grouping(d) == [y \in DOMAIN d |-> Range(d[y])]

InMapping(d, y, f) == y \in DOMAIN d /\ f \in Range(d[y])

\* C1: after a scan that completed, a matching file is in the mapping under
\* year y exactly when y is its year, its variable is not in exclude_vars and
\* y is not in exclude_years; it is listed once; and a second scan of the same
\* snapshot gives the same year -> file-set grouping.
C1_ScanFilter ==
    /\ (pc \notin {"start", "idle"} /\ err /= "ValueError") =>
          /\ \A i \in 1..Len(FileUniverse) : \A y \in {0, 2015, 2016} :
                FileUniverse[i] \in dir_files =>
                  (InMapping(raster_file_dict, y, FileUniverse[i])
                     <=> /\ NamedYear[i] = y
                         /\ NamedVariable[i] \notin args.exclude_vars
                         /\ y \notin args.exclude_years)
          /\ DOMAIN raster_file_dict \subseteq {2015, 2016}
          /\ \A y \in DOMAIN raster_file_dict :
                /\ Range(raster_file_dict[y]) \subseteq dir_files
                /\ Cardinality(Range(raster_file_dict[y])) = Len(raster_file_dict[y])
    /\ pc = "rescanned" => Grouping(rescan_dict) = Grouping(raster_file_dict)

\* C1 witness: two scans completed on a directory where one file is dropped
\* for its variable, one for its year and one is kept
C1_Witness ==
    /\ pc = "rescanned"
    /\ args.exclude_vars = {VarP} /\ args.exclude_years = {2016}
    /\ {FileUniverse[1], FileUniverse[2], FileUniverse[3]} \subseteq dir_files
    /\ 2015 \in DOMAIN raster_file_dict

\* C2 (as claimed): the table before missing-value removal has Y * N rows;
\* with remove_na the returned table has at most Y * N rows and no missing
\* value in any of its columns.
C2_RowsAndNoMissing ==
    /\ pc = "labelled" => Len(df.rows) = Len(years) * NCells
    /\ (pc = "done" /\ args.remove_na) =>
          /\ Len(df.rows) <= Len(years) * NCells
          /\ \A i \in 1..Len(df.rows) : \A c \in Range(df.cols) : ~IsNA(df.rows[i][c])

\* the concrete scenario of C3: ET and P for 2015 and 2016, no no-data cell,
\* every cell in region A, nothing excluded, the year column made, no column list
C3_Scenario ==
    /\ dir_files = {FileUniverse[1], FileUniverse[2], FileUniverse[3], FileUniverse[4]}
    /\ nan_cells = {}
    /\ gw_grid = GwAllA
    /\ args.exclude_years = {} /\ args.exclude_vars = {}
    /\ args.make_year_col /\ args.column_names = <<>>

\* the value at flat position k of the raster with the given file id
C3_CellValue(id, k) == Num(100 * id + 10 * (((k - 1) \div GridCols) + 1) + ((k - 1) % GridCols) + 1)

\* C3: in the scenario the returned table has 2 * N rows (8 for 2x2 grids),
\* the columns {ET, P, YEAR, GW_NAME}, YEAR 2015 in the first N rows and 2016
\* in the last N, region A everywhere, and row k of a year holds cell k of
\* that year's rasters.
C3_ConcreteScenario ==
    (pc = "done" /\ C3_Scenario) =>
        /\ Len(df.rows) = 2 * NCells
        /\ (GridRows = 2 /\ GridCols = 2) => Len(df.rows) = 8
        /\ Range(df.cols) = {VarET, VarP, ColYEAR, ColGW_NAME}
        /\ Cardinality(Range(df.cols)) = Len(df.cols)
        /\ \A k \in 1..NCells :
              /\ df.rows[k][ColYEAR] = Num(2015)
              /\ df.rows[NCells + k][ColYEAR] = Num(2016)
              /\ df.rows[k][VarET] = C3_CellValue(1, k)
              /\ df.rows[k][VarP] = C3_CellValue(2, k)
              /\ df.rows[NCells + k][VarET] = C3_CellValue(3, k)
              /\ df.rows[NCells + k][VarP] = C3_CellValue(4, k)
        /\ \A i \in 1..Len(df.rows) : df.rows[i][ColGW_NAME] = Str("A")

\* C3 witness: the scenario ran to its end
C3_Witness == pc = "done" /\ C3_Scenario /\ Len(df.rows) > 0

(***************************************************************************)
(* Claims about split_data_attribute (SpecAttr).                           *)
(***************************************************************************)
Refined == sargs.spatio_temporal /\ sargs.use_gws

\* the held-out values of the partition attribute, as table cells
HeldOut == IF sargs.use_gws THEN {Str(g) : g \in Range(sargs.test_gws)}
           ELSE {Num(y) : y \in Range(sargs.test_years)}

PartitionLabel == IF sargs.use_gws THEN ColGW_NAME ELSE ColYEAR

Occurrences(rows, r) == Cardinality({i \in 1..Len(rows) : rows[i] = r})

\* C4: without the spatio-temporal refinement, a row whose partition value is
\* held out is in test (once) and not in train, every other row is in train
\* (once) and not in test; so no partition value is on both sides.
C4_WholeGroupsHeldOut ==
    (spc = "done" /\ ~Refined) =>
        /\ \A r \in Range(input_df.rows) :
              IF r[PartitionLabel] \in HeldOut
              THEN Occurrences(x_test_df.rows, r) = 1 /\ Occurrences(x_train_df.rows, r) = 0
              ELSE Occurrences(x_train_df.rows, r) = 1 /\ Occurrences(x_test_df.rows, r) = 0
        /\ Range(x_train_df.rows) \cup Range(x_test_df.rows) \subseteq Range(input_df.rows)
        /\ ColumnSet(x_train_df, PartitionLabel) \cap ColumnSet(x_test_df, PartitionLabel) = {}

\* C4 witness: a region split that put rows on both sides
C4_Witness ==
    /\ spc = "done" /\ ~Refined /\ sargs.use_gws
    /\ Len(x_train_df.rows) > 0 /\ Len(x_test_df.rows) > 1

\* C5: with the refinement, after a normal return train holds exactly the rows
\* whose region is not in test_gws and whose year is not in test_years, test
\* holds exactly the others, and every input row is there exactly once.
C5_SpatioTemporal ==
    (spc = "done" /\ Refined) =>
        LET keep(r) == /\ r[ColGW_NAME] \notin {Str(g) : g \in Range(sargs.test_gws)}
                       /\ r[ColYEAR] \notin {Num(y) : y \in Range(sargs.test_years)}
        IN  /\ Range(x_train_df.rows) = {r \in Range(input_df.rows) : keep(r)}
            /\ Range(x_test_df.rows) = {r \in Range(input_df.rows) : ~keep(r)}
            /\ \A r \in Range(input_df.rows) :
                  Occurrences(x_train_df.rows, r) + Occurrences(x_test_df.rows, r) = 1
            /\ Len(x_train_df.rows) + Len(x_test_df.rows) = Len(input_df.rows)

\* C5 witness: a year listed twice carved a row of a training region out of
\* train, which keeps another row
C5_Witness ==
    /\ spc = "done" /\ Refined
    /\ sargs.test_years = <<2015, 2015>> /\ sargs.test_gws = <<"A">>
    /\ Len(x_train_df.rows) > 0
    /\ \E r \in Range(x_test_df.rows) : r[ColGW_NAME] = Str("B") /\ r[ColYEAR] = Num(2015)
    /\ \E r \in Range(x_test_df.rows) : r[ColGW_NAME] = Str("A")

\* C6: after shuffling, the target at position i is the target of the feature
\* row at position i, in the returned tables and in the four files.
C6_ShuffleAligned ==
    (spc = "done" /\ sargs.shuffle) =>
        /\ Len(y_train_df) = Len(x_train_df.rows)
        /\ Len(y_test_df) = Len(x_test_df.rows)
        /\ \A i \in 1..Len(x_train_df.rows) : y_train_df[i] = x_train_df.rows[i][VarGW]
        /\ \A i \in 1..Len(x_test_df.rows) : y_test_df[i] = x_test_df.rows[i][VarGW]
        /\ sargs.outdir =>
              /\ split_files.X_Train = x_train_df /\ split_files.Y_Train = y_train_df
              /\ split_files.X_Test = x_test_df /\ split_files.Y_Test = y_test_df
              /\ \A i \in 1..Len(split_files.X_Train.rows) :
                    split_files.Y_Train[i] = split_files.X_Train.rows[i][VarGW]
              /\ \A i \in 1..Len(split_files.X_Test.rows) :
                    split_files.Y_Test[i] = split_files.X_Test.rows[i][VarGW]

\* C6 witness: a shuffle that moved rows of the training table, files written
C6_Witness ==
    /\ spc = "done" /\ sargs.shuffle /\ sargs.outdir
    /\ Len(x_train_df.rows) >= 2
    /\ Permutation(sargs.random_state, Len(x_train_df.rows))
          /= [k \in 1..Len(x_train_df.rows) |-> k]

(***************************************************************************)
(* Claims about split_data_train_test_ratio (SpecRatio).                   *)
(***************************************************************************)
RatioLabel  == IF rargs.use_gw THEN ColGW_NAME ELSE ColYEAR
RatioTarget == IF rargs.use_gw THEN rargs.test_gw ELSE rargs.test_year
RatioValues == ColumnSet(ratio_df, RatioLabel)

\* the train and the test rows of the split of one partition value's rows
GroupSplit(svar) ==
    LET rows == RowsEq(ratio_df, RatioLabel, svar).rows
        idx  == TrainTestIndices(Len(rows), rargs.shuffle, rargs.random_state,
                                 rargs.test_size)
    IN  [train |-> Range(Take(rows, idx.train)), test |-> Range(Take(rows, idx.test))]

\* C7 (as claimed): when every per-group split succeeds, the train rows are
\* the union of the groups' train rows, and the test rows are the test rows
\* of the group named by the target when the target is a partition value, and
\* the union of all groups' test rows otherwise.
C7_TestSetSelection ==
    (rpc = "called" /\ ratio_out.err /= "ValueError") =>
        /\ Range(ratio_out.x_train.rows) = UNION {GroupSplit(v).train : v \in RatioValues}
        /\ Range(ratio_out.x_test.rows) =
              IF RatioTarget \in RatioValues
              THEN GroupSplit(RatioTarget).test
              ELSE UNION {GroupSplit(v).test : v \in RatioValues}

SameRows(a, b) == Range(a) = Range(b) /\ Len(a) = Len(b)

\* C8: two calls with the same table, arguments and random_state end the same
\* way and leave the same rows in each of the four outputs, whatever order
\* the partition values are visited in.
C8_Deterministic ==
    rpc = "repeated" =>
        /\ ratio_out.err = ratio_again.err
        /\ SameRows(ratio_out.x_train.rows, ratio_again.x_train.rows)
        /\ SameRows(ratio_out.x_test.rows, ratio_again.x_test.rows)
        /\ SameRows(ratio_out.y_train, ratio_again.y_train)
        /\ SameRows(ratio_out.y_test, ratio_again.y_test)

\* C8 witness: two shuffled calls that visited the groups in different orders
\* and returned
C8_Witness ==
    /\ rpc = "repeated" /\ rargs.shuffle
    /\ ratio_out.err = "" /\ ratio_again.err = ""
    /\ ratio_out.x_train.rows /= ratio_again.x_train.rows
    /\ Len(ratio_out.x_test.rows) >= 2

(***************************************************************************)
(* Claims about create_pred_raster (SpecPred).                             *)
(***************************************************************************)
\* the variable each file of PredUniverse is read as, and the files the scan
\* for 2015 reads
PredNamedVariable == <<VarET, VarP, VarGW, VarET, VarSW \o <<"_">> \o Y2015>>
PredReadIds       == {1, 2, 3, 5}

\* cell (r, c) is NaN in a raster that was read and is not excluded
Masked(r, c) ==
    \E i \in PredReadIds :
        /\ PredUniverse[i] \in pred_dir
        /\ PredNamedVariable[i] \notin pargs.exclude_vars
        /\ <<i, r, c>> \in pred_nan

FlatRow(k) == ((k - 1) \div GridCols) + 1
FlatCol(k) == ((k - 1) % GridCols) + 1

Unmasked == {k \in 1..NCells : ~Masked(FlatRow(k), FlatCol(k))}

\* the model predicted the no-data value at no cell outside the masks
NoSentinelPredicted == \A k \in Unmasked : model_out[k] /= NoData

\* C9: a written grid has the no-data value at every cell where a variable
\* that was read is NaN and the model's prediction for the cell everywhere
\* else, in 2-D cell order; when the model does not predict the no-data value
\* itself, the no-data cells are exactly the masked ones.
C9_NoDataRoundTrip ==
    (ppc = "done" /\ ~pargs.only_pred) =>
        /\ DOMAIN out_raster = 1..GridRows
        /\ \A r \in 1..GridRows : \A c \in 1..GridCols :
              out_raster[r][c] = IF Masked(r, c) THEN NoData
                                 ELSE model_out[(r - 1) * GridCols + c]
        /\ NoSentinelPredicted =>
              \A r \in 1..GridRows : \A c \in 1..GridCols :
                  out_raster[r][c] = NoData <=> Masked(r, c)

\* C9 witness: a raster was written from two variables with different
\* no-data cells and a model that predicts no no-data value
C9_Witness ==
    /\ ppc = "done" /\ ~pargs.only_pred /\ NoSentinelPredicted
    /\ {PredUniverse[1], PredUniverse[3]} \subseteq pred_dir
    /\ pargs.exclude_vars = {}
    /\ pred_nan = {<<1, 1, 2>>, <<3, 2, 1>>, <<5, 2, 2>>}
    /\ out_raster[1][2] = NoData /\ out_raster[2][1] = NoData
    /\ out_raster[1][1] /= NoData

\* the vectors the metrics should get: the cells outside the masks, in order
ExpectedActual == SelectSeqIdx(Ravel(RasterGrid(3, pred_nan)), Unmasked)
ExpectedPred   == SelectSeqIdx(model_out, Unmasked)

EvaluatedWithRaster ==
    /\ ppc \in {"predicted", "done"}
    /\ pargs.calculate_errors /\ ~pargs.only_pred

\* C10 (as claimed): in evaluation mode the two vectors handed to the metrics
\* are equally long and hold, position by position, the ground truth and the
\* prediction of the cells outside the masks, whatever the model predicts.
C10_AlignedForAnyModel ==
    EvaluatedWithRaster =>
        /\ stats_called
        /\ Len(actual_values) = Len(pred_values)
        /\ actual_values = ExpectedActual
        /\ pred_values = ExpectedPred

\* What does hold in evaluation mode: the two vectors are aligned whenever the
\* model predicts the no-data value at no cell outside the masks.
C10_AlignedUnlessSentinel ==
    (EvaluatedWithRaster /\ NoSentinelPredicted) =>
        /\ stats_called
        /\ Len(actual_values) = Len(pred_values)
        /\ actual_values = ExpectedActual
        /\ pred_values = ExpectedPred

\* C10 witness: an evaluation that dropped masked cells and kept others
C10_Witness ==
    /\ EvaluatedWithRaster /\ NoSentinelPredicted
    /\ Len(pred_values) >= 2 /\ Len(pred_values) < NCells
    /\ \E k \in 1..NCells : k \notin Unmasked /\ model_out[k] = NoData

(***************************************************************************)
(* Claims about predict_rasters (SpecLoop).                                *)
(***************************************************************************)
\* the calls made so far are for the first years of pred_years, in order, one
\* at a time, each with the flag its year asks for
CallsInOrder ==
    /\ Len(pr_calls) = IF pr_pc \in {"call", "error"} THEN pr_i ELSE pr_i - 1
    /\ Len(pr_calls) <= Len(pr_args.pred_years)
    /\ \A k \in 1..Len(pr_calls) :
          /\ pr_calls[k].pred_year = pr_args.pred_years[k]
          /\ pr_calls[k].calculate_errors =
                (pr_calls[k].pred_year \notin pr_args.exclude_years)

\* the years whose call has returned
ReturnedYears == {pr_args.pred_years[k] : k \in 1..(pr_i - 1)}

Emitted(year) == OutPredRaster(year) \in Range(pr_files.keys)

Reindexing == pc = "labelled" /\ pc' = "done"

ExplicitColumns == args.column_names /= <<>>
AllRequestedPresent == Range(args.column_names) \subseteq Range(df.cols)

\* C12: with an explicit column list that names a column the table does not
\* have, the operation ends with an error and returns no table.
C12_AbsentColumnFails ==
    [][(pc = "labelled" /\ ExplicitColumns /\ ~AllRequestedPresent)
          => (pc' = "error" /\ raster_df_csv' = EmptyDF)]_vars

\* C13 (as claimed): an explicit list of present columns gives exactly these
\* columns in the caller's order; without a list the result has the columns of
\* the input, sorted only if ordering is enabled.
C13_CallerOrderOptionalSort ==
    [][Reindexing =>
          /\ (ExplicitColumns /\ AllRequestedPresent) => df'.cols = args.column_names
          /\ ~ExplicitColumns =>
                df'.cols = IF args.ordering THEN Sorted(df.cols) ELSE df.cols]_vars

\* C13 (amended): an explicit list of present columns gives exactly these
\* columns, in the caller's order when ordering is disabled and sorted when it
\* is enabled; without a list the result has the columns of the input, always
\* sorted.
C13_SortedUnlessListUnordered ==
    [][Reindexing =>
          /\ (ExplicitColumns /\ AllRequestedPresent) =>
                df'.cols = IF args.ordering THEN Sorted(args.column_names)
                           ELSE args.column_names
          /\ ~ExplicitColumns =>
                /\ df'.cols = Sorted(df.cols)
                /\ Range(df'.cols) = Range(df.cols)]_vars

\* C13 witness: a table returned without a column list and with ordering
\* disabled, its columns sorted, not in the order they were assembled in
C13_Witness ==
    /\ pc = "done" /\ ~ExplicitColumns /\ ~args.ordering
    /\ df.cols = <<VarET, ColGW_NAME, VarP, ColYEAR>>
    /\ raster_dict.keys = <<VarP, VarET, ColYEAR>>

\* C14: if a file of the directory has a year part that is not an integer,
\* create_dataframe ends with a parse error in the scan, nothing built or
\* written, also when the variable of that file is excluded.
C14_BadYearAlwaysFails ==
    (pc /= "start" /\ \E f \in dir_files : ~IsInt(ParseYear(f))) =>
        /\ pc = "error" /\ err = "ValueError"
        /\ df = EmptyDF /\ raster_df_csv = EmptyDF

\* C16: with remove_na, every row whose values other than the region label are
\* all present is retained, whether its region label is null or not.
C16_NullRegionRetained ==
    [][(Reindexing /\ args.remove_na) =>
          Len(df'.rows) >= Cardinality({i \in 1..Len(df.rows) :
                                \A c \in Range(df.cols) \ {ColGW_NAME} :
                                    ~IsNA(df.rows[i][c])})]_vars

(***************************************************************************)
(* Held-out values that do not occur (SpecAttr).                           *)
(***************************************************************************)
SomeHeldOutAbsent == \E v \in HeldOut : v \notin ColumnSet(input_df, PartitionLabel)
AllPresentHeldOut == ColumnSet(input_df, PartitionLabel) \subseteq HeldOut

\* C15: when a held-out value does not occur in the partition attribute, or
\* every value that occurs is held out, split_data_attribute does not raise.
C15_AbsentHeldOutReturns ==
    (SomeHeldOutAbsent \/ AllPresentHeldOut) => spc /= "error"

(***************************************************************************)
(* Claims about rf_regressor (SpecRF).                                     *)
(***************************************************************************)
\* the runs before run k that fitted a model
FitsBefore(k) == {j \in 1..(k - 1) : rf_log[j].fit}

\* the tables a run would read back from the split files of dir
LoadedTrain(dir) == DfDrop(ReadCsv(dir.split.X_Train), <<VarGW>>)
LoadedTest(dir)  == DfDrop(ReadCsv(dir.split.X_Test), <<VarGW>>)

\* C17: a run that returns has fitted a model exactly if load_model was False
\* or no model file was there when it began (and no run fits otherwise); a run
\* that fits has split anew and leaves its model and its split in the
\* directory; a run that loads neither fits nor splits nor changes these
\* files, and works with the model and the split tables the directory held,
\* which are those of the last run that fitted.
C17_FitOrLoadPersisted ==
    \A k \in 1..Len(rf_log) :
        LET r == rf_log[k]
            training == ~r.load_model \/ ~r.saved
        IN  /\ r.fit => training
            /\ r.completed => (r.fit <=> training)
            /\ r.dir_before = IF k = 1 THEN r.dir_before ELSE rf_log[k - 1].dir_after
            /\ r.fit =>
                  /\ r.resplit
                  /\ r.dir_after.model = r.regressor
                  /\ r.dir_after.split /= <<>>
                  /\ LoadedTrain(r.dir_after) = r.x_train
                  /\ LoadedTest(r.dir_after) = r.x_test
            /\ ~training =>
                  /\ ~r.fit /\ ~r.resplit
                  /\ r.dir_after.model = r.dir_before.model
                  /\ r.dir_after.split = r.dir_before.split
            /\ (r.completed /\ ~training) =>
                  /\ r.regressor = r.dir_before.model
                  /\ r.x_train = LoadedTrain(r.dir_before)
                  /\ r.x_test = LoadedTest(r.dir_before)
                  /\ FitsBefore(k) /= {} =>
                        LET j == CHOOSE i \in FitsBefore(k) :
                                    \A i2 \in FitsBefore(k) : i2 <= i
                        IN  /\ r.regressor = rf_log[j].regressor
                            /\ r.x_train = rf_log[j].x_train
                            /\ r.x_test = rf_log[j].x_test

\* C17 witness: a run that trained, a run that loaded what it left, and a run
\* told not to load that trained again on another split
C17_Witness ==
    /\ Len(rf_log) = 3
    /\ \A k \in 1..3 : rf_log[k].completed
    /\ rf_log[1].fit /\ ~rf_log[1].saved
    /\ rf_log[2].load_model /\ ~rf_log[2].fit
    /\ rf_log[2].regressor = rf_log[1].regressor
    /\ ~rf_log[3].load_model /\ rf_log[3].fit /\ rf_log[3].saved
    /\ rf_log[3].x_train /= rf_log[1].x_train

\* the runs that returned, in run order
CompletedRuns == SelectSeq(rf_log, LAMBDA r : r.completed)

\* C18: RF_Results.csv holds nothing before the first completed run, and after
\* n completed runs one header line followed by the n rows of these runs in run
\* order.
C18_OneRowPerRun ==
    (rf_pc /= "off") =>
        rf_dir.results =
            IF Len(CompletedRuns) = 0 THEN <<>>
            ELSE <<ResultsHeader>> \o
                 [k \in 1..Len(CompletedRuns) |->
                     [line |-> "row", Test |-> CompletedRuns[k].test_case]]

\* C18 witness: two completed runs with different test cases around a run that
\* did not return
C18_Witness ==
    /\ Len(CompletedRuns) = 2
    /\ Len(rf_log) = 3 /\ ~rf_log[2].completed
    /\ CompletedRuns[1].test_case = "T2" /\ CompletedRuns[2].test_case = "T1"
    /\ Len(rf_dir.results) = 3

(***************************************************************************)
(* Claims about the fan-outs of vectorops.py (SpecFan).                    *)
(***************************************************************************)
\* the tasks of the fan-out
FanTasks == IF fan_call = <<>> THEN {} ELSE 1..Len(fan_call.items)

\* the tasks a worker has taken: those writing and those that have written
StartedTasks == FanTasks \ Range(fan_pending)

\* C19: no two workers of one fan-out write the same output path: the paths
\* of the tasks taken so far are pairwise different, and so no two workers
\* have been writing one path at the same time, for every fan-out, every
\* input list and every interleaving.
C19_NoSharedOutputPath ==
    /\ ~fan_raced
    /\ \A j, k \in StartedTasks :
          j /= k => OutPath(fan_call, j) /= OutPath(fan_call, k)

\* what does hold: the three fan-outs over the files of a directory give
\* every task a path of its own, and so does extract_gdb_data when no year
\* is repeated
C19_DisjointUnlessYearRepeated ==
    (fan_call /= <<>> /\
     (fan_call.fn = "extract_gdb_data" =>
         \A j, k \in FanTasks : j /= k => fan_call.items[j] /= fan_call.items[k]))
    => C19_NoSharedOutputPath

\* C19 witness of the failure: two workers were writing one file at once and
\* both writes completed
C19_Witness ==
    /\ fan_raced
    /\ \E a, b \in 1..Len(fan_written) :
          a /= b /\ fan_written[a].path = fan_written[b].path

(***************************************************************************)
(* Claims about only_pred in create_pred_raster (SpecPred).                *)
(***************************************************************************)
\* C20: a call with calculate_errors = False that returns has restored the
\* no-data value at the masked cells and has written the prediction raster,
\* whatever only_pred the caller passed.
C20_OnlyPredResetWithoutErrors ==
    (ppc = "done" /\ ~pargs.calculate_errors) =>
        /\ pred_arr = RestoreNoData(model_out, nan_pos_dict)
        /\ out_raster = Reshape2D(pred_arr)

\* what does hold: the same for the calls that pass only_pred = False
C20_RestoredAndWrittenUnlessOnlyPred ==
    (ppc = "done" /\ ~pargs.calculate_errors /\ ~pargs.only_pred) =>
        /\ pred_arr = RestoreNoData(model_out, nan_pos_dict)
        /\ out_raster = Reshape2D(pred_arr)

\* C20 witness of the failure: a call with calculate_errors = False and
\* only_pred = True returned with no raster written
C20_Witness ==
    /\ ppc = "done" /\ ~pargs.calculate_errors /\ pargs.only_pred
    /\ out_raster = <<>>

(***************************************************************************)
(* Claims about the files create_pred_raster reads (SpecPred).             *)
(***************************************************************************)
\* the files of the directory whose variable was read into the table
ReadInto(v) == {f \in pred_dir : GlobMatch(f, pargs.pred_year) /\ ParseVariable(f) = v}

\* C21: every file read into the prediction table has the parsed year
\* pred_year: each column and each no-data mask comes from such a file, and
\* a name that goes on after '_<pred_year>' contributes nothing.
C21_OnlyFilesOfPredYear ==
    (ppc /= "start") =>
        \A v \in Range(nan_pos_dict.keys) :
            \A f \in ReadInto(v) : ParseYear(f) = pargs.pred_year

\* what does hold: the same in a directory whose names all end in
\* '_<year>.tif' with a year of digits
C21_OnlyFilesOfPredYearPlainNames ==
    (ppc /= "start" /\ \A f \in pred_dir : IsInt(ParseYear(f))) =>
        \A v \in Range(nan_pos_dict.keys) :
            \A f \in ReadInto(v) : ParseYear(f) = pargs.pred_year

\* C21 witness of the failure: SW_2015_v2.tif gave the table a column and a
\* mask under the name SW_2015
C21_Witness ==
    /\ ppc = "tabled"
    /\ VarSW \o <<"_">> \o Y2015 \in Range(nan_pos_dict.keys)
    /\ VarSW \o <<"_">> \o Y2015 \in Range(raster_arr_dict.keys)

(***************************************************************************)
(* Claims about the id settings of add_attribute_well_reg (SpecKw).        *)
(***************************************************************************)
\* the value a setting should have: the caller's if passed, else the default
ExpectedId(k) == IF KwHas(kw_kwargs, k) THEN KwGet(kw_kwargs, k) ELSE KwDefaults[k]

\* the KeyError of a setting that kwargs lacks
FailedOnKwargs == kw_err /= <<>> /\ kw_err[2] \in KwKeys

\* C22: once the settings are read, each of the six has the value passed for
\* it in kwargs, or its default when it was not passed, and reading them
\* from a kwargs that holds only some of them does not fail.
C22_EachSettingOverridable ==
    (kw_pc \notin {"idle", "start"}) =>
        /\ ~FailedOnKwargs
        /\ \A k \in KwKeys : kw_ids[k] = ExpectedId(k)

\* what does hold: a call without kwargs works with the six defaults, and a
\* call that passes csv_well_id, movement_type, water_type and shp_well_id
\* works with these four as passed and with the defaults of csv_mov_id and
\* csv_water_id
C22_AllFourOrNone ==
    (kw_pc \notin {"idle", "start"}
        /\ (kw_kwargs = {} \/ \A i \in 1..Len(KwRead) : KwHas(kw_kwargs, KwRead[i]))) =>
        /\ ~FailedOnKwargs
        /\ \A k \in KwKeys :
              kw_ids[k] = IF k \in Range(KwRead) THEN ExpectedId(k) ELSE KwDefaults[k]

\* C22 witness of the failure: a call that passed csv_well_id alone stopped
\* with the KeyError of movement_type
C22_Witness ==
    /\ kw_pc = "error"
    /\ kw_kwargs = {<<"csv_well_id", KwCustom.csv_well_id>>}
    /\ kw_err = <<"KeyError", "movement_type">>

(***************************************************************************)
(* Claims about the years of the assembled values (SpecDF).                *)
(***************************************************************************)
\* the files of a year that were kept for variable v
FilesOf(year, v) == {f \in Range(raster_file_dict[year]) : ParseVariable(f) = v}

\* the variable columns of the assembled table
VariableCols == Range(df.cols) \ {ColYEAR, ColGW_NAME}

\* row k of year number j holds, under v, cell k of the year's file of v, and
\* a missing value when the year has no file of v
OwnYearValue(j, k, v) ==
    LET year == years[j]
        cell == df.rows[(j - 1) * NCells + k][v]
    IN  IF FilesOf(year, v) = {} THEN IsNA(cell)
        ELSE \E f \in FilesOf(year, v) : cell = Ravel(read_raster_as_arr(f))[k]

\* C23: in the assembled table the values of a year's rows are those read
\* from the files of that year, for every year and every variable column; no
\* row carries a value read from another year's raster, also when a variable
\* has a file for an earlier year and none for this one.
C23_ValuesOfOwnYear ==
    (pc = "labelled") =>
        \A j \in 1..Len(years) : \A k \in 1..NCells : \A v \in VariableCols :
            OwnYearValue(j, k, v)

\* what does hold: the same when every variable seen so far has a file in
\* each later year
C23_ValuesOfOwnYearNoGap ==
    (pc = "labelled"
        /\ \A i, j \in 1..Len(years) : \A f \in Range(raster_file_dict[years[i]]) :
              i < j => FilesOf(years[j], ParseVariable(f)) /= {}) =>
        \A j \in 1..Len(years) : \A k \in 1..NCells : \A v \in VariableCols :
            OwnYearValue(j, k, v)

\* C23 witness of the failure: P has a file for 2015 and none for 2016, and
\* the first row of 2016 carries the first cell of P_2015
C23_Witness ==
    /\ pc = "labelled"
    /\ years = <<2015, 2016>>
    /\ FilesOf(2015, VarP) = {FileName(VarP, Y2015)} /\ FilesOf(2016, VarP) = {}
    /\ ~IsNA(df.rows[NCells + 1][VarP])
    /\ df.rows[NCells + 1][VarP] = Ravel(read_raster_as_arr(FileName(VarP, Y2015)))[1]

(***************************************************************************)
(* Claims about the feature columns handed to the model (SpecPred, SpecRF).*)
(***************************************************************************)
\* rf_model.predict was called in create_pred_raster and returned
PredictCalled == ppc \in {"predicted", "done"}

\* a raster of the target variable was read for the year
TargetRasterRead == VarGW \in Range(raster_arr_dict.keys)

\* C24: the target column and the columns of drop_attrs are not among the
\* feature columns passed to predict in create_pred_raster, in both
\* calculate_errors modes and with or without column_names, whenever a raster
\* of the target variable exists for the year.
C24_TargetNeverAFeature ==
    (PredictCalled /\ TargetRasterRead) =>
        /\ VarGW \notin Range(pred_features)
        /\ Range(pargs.drop_attrs) \cap Range(pred_features) = {}

\* what does hold in create_pred_raster: the same when the errors are
\* calculated or a column list is given, and the columns of drop_attrs are
\* never features
C24_TargetDroppedWithErrorsOrList ==
    PredictCalled =>
        /\ (pargs.calculate_errors \/ pargs.column_names /= <<>>) =>
              VarGW \notin Range(pred_features)
        /\ Range(pargs.drop_attrs) \cap Range(pred_features) = {}

\* what does hold in rf_regressor: the tables a run fits on and predicts for,
\* freshly split or loaded from the directory, have no target column
C24_RFFeaturesWithoutTarget ==
    \A k \in 1..Len(rf_log) :
        rf_log[k].completed =>
            /\ VarGW \notin Range(rf_log[k].x_train.cols)
            /\ VarGW \notin Range(rf_log[k].x_test.cols)
            /\ rf_log[k].fit => VarGW \notin Range(rf_log[k].regressor.x.cols)

\* C24 witness of the failure: without error metrics and without a column
\* list the target raster of the year was read and the target went to predict
C24_Witness ==
    /\ ppc = "done" /\ ~pargs.calculate_errors /\ pargs.column_names = <<>>
    /\ TargetRasterRead
    /\ VarGW \in Range(pred_features)

(***************************************************************************)
(* Claims about the pool sizes of the fan-outs (SpecFan).                  *)
(***************************************************************************)
\* C25: for every number of processors the n_jobs a fan-out hands to the
\* pool is a valid pool size, never 0: the pool refuses no fan-out.
C25_PoolSizeNeverZero ==
    (fan_call /= <<>>) =>
        /\ ~fan_call.refused
        /\ (StartedTasks /= {} => NJobs(fan_call.fn, fan_call.cpu_count) /= 0)

\* what does hold: clip_vectors and extract_gdb_data are never refused, and
\* no fan-out is refused on a machine whose number of processors is not two
C25_PoolSizeValidUnlessTwoCpus ==
    (fan_call /= <<>>
        /\ (fan_call.fn \in {"clip_vectors", "extract_gdb_data"} \/ fan_call.cpu_count /= 2)) =>
        /\ ~fan_call.refused
        /\ NJobs(fan_call.fn, fan_call.cpu_count) /= 0

\* C25 witness of the failure: on two processors shps2rasters asked for a
\* pool of 0 workers and was refused with all its tasks left
C25_Witness ==
    /\ fan_call /= <<>>
    /\ fan_call.fn = "shps2rasters" /\ fan_call.cpu_count = 2
    /\ NJobs(fan_call.fn, fan_call.cpu_count) = 0
    /\ fan_call.refused /\ fan_written = <<>>

====
